---- MODULE Spec2Model ----
(***************************************************************************)
(* ALGOTEST: the persistence store, the Execution workflow (graph nodes    *)
(* and the execute_task_tests driver), the Analysis persist node, the      *)
(* Selection retry loop and document upload.                               *)
(***************************************************************************)
EXTENDS Integers, Sequences, FiniteSets, TLC

(***************************************************************************)
(* Bounds                                                                  *)
(***************************************************************************)
MaxCases == 2
MaxAdhoc == 1
MaxGen == 3

VARIABLES
    db,     \* persistence store: test_tasks and test_cases rows, remote sandboxes
    env,    \* outcomes of the remote collaborators during one run
    pc,     \* position of the running operation
    st,     \* ExecutionState passed between the nodes
    log,    \* node invocations and store commits, in order
    drv,    \* locals of execute_task_tests
    resp,   \* last response of the prepare and release-docker routes
    an,     \* one Analysis run: position, AnalysisState, store rows, outcomes
    sel,    \* one Selection run: position, SelectAgentState, outcomes
    up,     \* document upload: test_tasks rows, requests in flight, responses
    fn      \* one call of a function of the gateway or executor adapter: its
            \* input and its result

execVars == <<db, env, pc, st, log, drv, resp>>
vars == <<db, env, pc, st, log, drv, resp, an, sel, up, fn>>

(***************************************************************************)
(* Store                                                                   *)
(***************************************************************************)
T1 == 1
TaskIds == 1..(1 + MaxAdhoc)
CaseIds == 1..(MaxCases + MaxAdhoc)

NoTask == [exists |-> FALSE, status |-> "none", algorithm_image |-> FALSE,
           container_name |-> FALSE]
NoCase == [exists |-> FALSE, task_id |-> 0, status |-> "none", steps |-> FALSE,
           test_data |-> FALSE, result_analysis |-> "none", test_result |-> FALSE,
           external_output |-> "none"]

TaskRow(status, image, container) ==
    [exists |-> TRUE, status |-> status, algorithm_image |-> image,
     container_name |-> container]

\* a freshly inserted case: status reads as pending, no result yet
CaseRow(task_id, steps, test_data) ==
    [exists |-> TRUE, task_id |-> task_id, status |-> "pending", steps |-> steps,
     test_data |-> test_data, result_analysis |-> "none", test_result |-> FALSE,
     external_output |-> "none"]

CasesOf(d, t) == {c \in CaseIds : d.cases[c].exists /\ d.cases[c].task_id = t}

RECURSIVE SetToSeq(_)
SetToSeq(S) ==
    IF S = {} THEN <<>>
    ELSE LET m == CHOOSE x \in S : \A y \in S : x <= y
         IN <<m>> \o SetToSeq(S \ {m})

Terminal(s) == s \in {"completed", "failed"}

(***************************************************************************)
(* Store operations (core/database.py)                                     *)
(***************************************************************************)
update_test_task_status(d, t, status) ==
    IF d.tasks[t].exists
    THEN [d EXCEPT !.tasks[t].status = status]
    ELSE d

\* sets the container name column of a task
update_task_container_name(d, t, name) ==
    IF d.tasks[t].exists
    THEN [d EXCEPT !.tasks[t].container_name = name]
    ELSE d

\* The row's status column is not written.  For status "completed" a
\* test_results row is written from result.get(...): result is the raw output
\* text, so a non-empty text raises AttributeError before the commit.
update_test_case_status(d, c, status, result_nonempty) ==
    IF c = 0 \/ ~d.cases[c].exists
    THEN [raised |-> FALSE, db |-> d]
    ELSE IF status = "completed"
         THEN IF result_nonempty
              THEN [raised |-> TRUE, db |-> d]
              ELSE [raised |-> FALSE, db |-> [d EXCEPT !.cases[c].test_result = TRUE]]
         ELSE [raised |-> FALSE, db |-> d]

(***************************************************************************)
(* Execution workflow nodes (agents/execution_agent.py)                    *)
(***************************************************************************)
NoResult == [present |-> FALSE, success |-> FALSE, has_output |-> FALSE]

\* initial_state of run_execution / execute_task_tests
InitialState(case_id, ready) ==
    [status |-> "created", case_id |-> case_id, test_cases |-> <<>>,
     current_case_index |-> 0, command_strategies |-> "none",
     execution_result |-> NoResult, errors |-> <<>>, container_ready |-> ready]

Ev(op, idx) == [op |-> op, idx |-> idx]

Returned(s, d, ev) == [raised |-> FALSE, st |-> s, db |-> d, ev |-> ev]
Raised(s, d, ev) == [raised |-> TRUE, st |-> s, db |-> d, ev |-> ev]

WithError(s, msg) == [s EXCEPT !.errors = Append(s.errors, msg), !.status = "error"]

\* provisioning of the sandbox algotest_<task_id> on the remote executor
setup_algorithm_container(d, e, t) ==
    IF ~d.tasks[t].exists \/ ~d.tasks[t].algorithm_image
    THEN [success |-> FALSE, db |-> d]
    ELSE IF ~e.provision_ok
         THEN [success |-> FALSE, db |-> d]
         ELSE [success |-> TRUE, db |-> [d EXCEPT !.sandbox[t] = TRUE]]

setup_docker_for_workflow(s, d, e) ==
    LET r == setup_algorithm_container(d, e, T1)
        ev == <<Ev("setup_docker", -1)>>
    IN IF ~r.success
       THEN Returned([WithError(s, "setup") EXCEPT !.container_ready = FALSE], r.db, ev)
       ELSE Returned([s EXCEPT !.container_ready = TRUE, !.status = "container_ready"],
                     r.db, ev)

\* load_test_cases with the task_id condition left out of the case_id query
load_test_cases_any_task(s, d) ==
    LET rows == IF s.case_id # 0
                THEN {c \in CaseIds : d.cases[c].exists /\ c = s.case_id}
                ELSE CasesOf(d, T1)
        ev == <<Ev("load_test_cases", -1)>>
    IN IF rows = {}
       THEN Returned(WithError(s, "no_cases"), d, ev)
       ELSE Returned([s EXCEPT !.test_cases = SetToSeq(rows),
                               !.current_case_index = 0,
                               !.status = "loaded"], d, ev)

load_test_cases(s, d) ==
    LET rows == IF s.case_id # 0
                THEN {c \in CasesOf(d, T1) : c = s.case_id}
                ELSE CasesOf(d, T1)
        ev == <<Ev("load_test_cases", -1)>>
    IN IF rows = {}
       THEN Returned(WithError(s, "no_cases"), d, ev)
       ELSE Returned([s EXCEPT !.test_cases = SetToSeq(rows),
                               !.current_case_index = 0,
                               !.status = "loaded"], d, ev)

\* whether the local container_name is bound when line 723 reads it: its only
\* assignment (line 694) follows the raise inside the `if not result` block
container_name_bound == FALSE

parse_command_unchecked_name(s, d, e) ==
    LET idx == s.current_case_index
        ev == <<Ev("parse_command", idx)>>
    IN IF s.test_cases = <<>> THEN Raised(s, d, ev)
       ELSE IF idx >= Len(s.test_cases) THEN Raised(s, d, ev)
       ELSE LET c == s.test_cases[idx + 1] IN
            IF ~d.cases[c].steps
            THEN Returned([s EXCEPT !.status = "error"], d, ev)
            ELSE IF ~d.cases[c].test_data
                 THEN Returned(WithError(s, "no_test_data"), d, ev)
            ELSE IF ~container_name_bound
                 THEN Raised(s, d, ev)
            ELSE Returned([s EXCEPT !.case_id = c,
                                    !.command_strategies = e.llm,
                                    !.status = "parsed"], d, ev)

parse_command(s, d, e) ==
    LET idx == s.current_case_index
        ev == <<Ev("parse_command", idx)>>
    IN IF s.test_cases = <<>> THEN Raised(s, d, ev)
       ELSE IF idx >= Len(s.test_cases) THEN Raised(s, d, ev)
       ELSE LET c == s.test_cases[idx + 1] IN
            IF ~d.cases[c].steps
            THEN Returned([s EXCEPT !.status = "error"], d, ev)
            ELSE IF ~d.tasks[T1].container_name
                 THEN Returned(WithError(s, "no_container_name"), d, ev)
            ELSE IF ~d.cases[c].test_data
                 THEN Returned(WithError(s, "no_test_data"), d, ev)
            ELSE IF ~container_name_bound
                 THEN Raised(s, d, ev)
            ELSE Returned([s EXCEPT !.case_id = c,
                                    !.command_strategies = e.llm,
                                    !.status = "parsed"], d, ev)

\* outcome of execute_container_command for the executor's behaviour; with a
\* non-empty external_output the call returns at line 1254 before any session
\* is opened
execute_container_command(e, external_output) ==
    IF external_output = "text"
    THEN [present |-> TRUE, success |-> TRUE, has_output |-> TRUE]
    ELSE CASE e.executor = "ok" ->
                [present |-> TRUE, success |-> TRUE, has_output |-> TRUE]
           [] e.executor = "fail" ->
                [present |-> TRUE, success |-> FALSE, has_output |-> TRUE]
           [] OTHER ->
                [present |-> TRUE, success |-> FALSE, has_output |-> FALSE]

\* lines 786-802: the external_output field of the current case, "none" when
\* there is no current case
external_output_of(s, d) ==
    IF s.current_case_index < Len(s.test_cases)
    THEN d.cases[s.test_cases[s.current_case_index + 1]].external_output
    ELSE "none"

\* execute_command that never looks at the case's external_output
execute_command_no_override(s, d, e) ==
    LET idx == s.current_case_index
        ev == <<Ev("execute_command", idx)>>
    IN IF s.command_strategies \in {"none", "empty"}
       THEN Returned(WithError(s, "no_strategy"), d, ev)
       ELSE IF s.command_strategies = "no_command"
       THEN Returned([s EXCEPT !.execution_result =
                          [present |-> TRUE, success |-> FALSE, has_output |-> FALSE],
                               !.status = "error"], d, ev)
       ELSE Returned([s EXCEPT !.execution_result =
                                    execute_container_command(e, "none"),
                               !.status = "executed"],
                     d, Append(ev, Ev("sse_client", idx)))

\* the event sse_client records that a session to the executor is opened
execute_command(s, d, e) ==
    LET idx == s.current_case_index
        ev == <<Ev("execute_command", idx)>>
        external_output == external_output_of(s, d)
    IN IF s.command_strategies \in {"none", "empty"}
       THEN Returned(WithError(s, "no_strategy"), d, ev)
       ELSE IF s.command_strategies = "no_command"
       THEN Returned([s EXCEPT !.execution_result =
                          [present |-> TRUE, success |-> FALSE, has_output |-> FALSE],
                               !.status = "error"], d, ev)
       ELSE Returned([s EXCEPT !.execution_result =
                                    execute_container_command(e, external_output),
                               !.status = "executed"],
                     d, IF external_output = "text" THEN ev
                        ELSE Append(ev, Ev("sse_client", idx)))

RECURSIVE save_result(_, _, _)
save_result(s, d, e) ==
    LET idx == s.current_case_index
        ev == <<Ev("save_result", idx)>>
        res == s.execution_result
    IN IF ~res.present
       THEN Returned(WithError(s, "no_result"), d, ev)
       ELSE
       LET u == update_test_case_status(d, s.case_id,
                    IF res.success THEN "completed" ELSE "failed", res.has_output)
       IN IF u.raised
          THEN Returned(WithError(s, "save_failed"), d, ev)
          ELSE
          LET c == s.case_id
              d1 == IF c # 0 /\ u.db.cases[c].exists
                    THEN [u.db EXCEPT !.cases[c].result_analysis =
                              IF res.success THEN "success" ELSE "failure"]
                    ELSE u.db
              ev1 == Append(ev, Ev("commit", idx))
          IN IF idx + 1 < Len(s.test_cases)
             THEN LET n0 == [s EXCEPT !.current_case_index = idx + 1,
                                      !.case_id = 0,
                                      !.command_strategies = "none",
                                      !.execution_result = NoResult,
                                      !.status = "next_case"]
                      p == parse_command(n0, d1, e)
                  IN IF p.raised
                     THEN Returned(WithError(s, "exception"), d1, ev1 \o p.ev)
                     ELSE IF p.st.status = "parsed"
                     THEN LET x == execute_command(p.st, d1, e)
                          IN IF x.st.status = "executed"
                             THEN LET r == save_result(x.st, d1, e)
                                  IN Returned(r.st, r.db, ev1 \o p.ev \o x.ev \o r.ev)
                             ELSE Returned(x.st, d1, ev1 \o p.ev \o x.ev)
                     ELSE Returned(p.st, d1, ev1 \o p.ev)
             ELSE Returned([s EXCEPT !.status = "completed"],
                           update_test_task_status(d1, T1, "completed"), ev1)

(***************************************************************************)
(* create_execution_graph: edges of the compiled graph                     *)
(***************************************************************************)
\* edges that also look at where another run of the graph stands
create_execution_graph_by_position(node, s) ==
    CASE node = "setup_docker" -> "load_test_cases"
      [] node = "load_test_cases" ->
            IF pc = "load_test_cases" THEN "parse_command" ELSE "END"
      [] node = "parse_command" -> "execute_command"
      [] node = "execute_command" -> "save_result"
      [] node = "save_result" ->
            IF s.status = "next_case" THEN "parse_command" ELSE "END"

\* the node that runs after `node` returned state s ("END" ends the run)
create_execution_graph(node, s) ==
    CASE node = "setup_docker" -> "load_test_cases"
      [] node = "load_test_cases" -> "parse_command"
      [] node = "parse_command" -> "execute_command"
      [] node = "execute_command" -> "save_result"
      [] node = "save_result" ->
            IF s.status = "next_case" THEN "parse_command" ELSE "END"

ExecNode(node, s, d, e) ==
    CASE node = "setup_docker" -> setup_docker_for_workflow(s, d, e)
      [] node = "load_test_cases" -> load_test_cases(s, d)
      [] node = "parse_command" -> parse_command(s, d, e)
      [] node = "execute_command" -> execute_command(s, d, e)
      [] node = "save_result" -> save_result(s, d, e)

ExecNodes == {"setup_docker", "load_test_cases", "parse_command",
              "execute_command", "save_result"}

LlmOutcomes == {"plan", "no_command", "empty"}
ExecutorOutcomes == {"ok", "fail", "unreachable"}

\* stores the program can hold before an execution: one task with 0..MaxCases
\* cases, none of them run yet; ic is <<image set, container name set>> (a
\* container name is stored only for a task that has an image)
SeedStores ==
    { [tasks |-> [t \in TaskIds |->
                    IF t = T1 THEN TaskRow("created", ic[1], ic[2]) ELSE NoTask],
       cases |-> [c \in CaseIds |->
                    IF c <= n THEN CaseRow(T1, sp[c], td[c]) ELSE NoCase],
       sandbox |-> [t \in TaskIds |-> t = T1 /\ ic[2]]] :
      ic \in {<<FALSE, FALSE>>, <<TRUE, FALSE>>, <<TRUE, TRUE>>}, n \in 0..MaxCases,
      sp \in [1..MaxCases -> BOOLEAN], td \in [1..MaxCases -> BOOLEAN] }

\* no route has answered yet; tick flips with every answer, quiet tells
\* whether the executor was reachable and silent on stderr during the call,
\* after_release whether the answer before was a release that cleared the name
NoResponse ==
    [op |-> "none", success |-> FALSE, called |-> FALSE, quiet |-> TRUE,
     tick |-> 0, after_release |-> FALSE]

RouteResponse(op, success, called, quiet) ==
    [op |-> op, success |-> success, called |-> called, quiet |-> quiet,
     tick |-> 1 - resp.tick,
     after_release |-> (resp.op = "release" /\ resp.success /\ resp.called)]

ExecIdle ==
    /\ db = [tasks |-> [t \in TaskIds |-> NoTask], cases |-> [c \in CaseIds |-> NoCase],
             sandbox |-> [t \in TaskIds |-> FALSE]]
    /\ env = [provision_ok |-> TRUE, llm |-> "plan", executor |-> "ok"]
    /\ pc = "idle"
    /\ st = InitialState(0, FALSE)
    /\ log = <<>>
    /\ drv = [mode |-> "none", i |-> 0, test_cases |-> <<>>]
    /\ resp = NoResponse

AnalysisIdle == an = [pc |-> "off"]
SelectionIdle == sel = [pc |-> "off"]
UploadIdle == up = [pc |-> "off"]
FnIdle == fn = [pc |-> "off"]

ExecInit ==
    /\ AnalysisIdle /\ SelectionIdle /\ UploadIdle /\ FnIdle
    /\ db \in SeedStores
    /\ env \in [provision_ok : BOOLEAN, llm : LlmOutcomes, executor : ExecutorOutcomes]
    /\ pc = "idle"
    /\ st = InitialState(0, FALSE)
    /\ log = <<>>
    /\ drv = [mode |-> "none", i |-> 0, test_cases |-> <<>>]
    /\ resp = NoResponse

\* run_execution: the compiled graph is entered at setup_docker
run_execution ==
    /\ pc = "idle"
    /\ db.tasks[T1].algorithm_image
    /\ pc' = "setup_docker"
    /\ st' = InitialState(0, FALSE)
    /\ drv' = [drv EXCEPT !.mode = "graph"]
    /\ UNCHANGED <<db, env, log, resp, an, sel, up, fn>>

\* one step of the compiled graph: invoke the node, follow its edge
GraphStep(node) ==
    /\ pc = node
    /\ drv.mode = "graph"
    /\ LET r == ExecNode(node, st, db, env)
       IN /\ st' = r.st
          /\ db' = r.db
          /\ log' = log \o r.ev
          /\ pc' = IF r.raised THEN "raised"
                   ELSE LET nx == create_execution_graph(node, r.st)
                        IN IF nx = "END" THEN "done" ELSE nx
    /\ UNCHANGED <<env, drv, resp, an, sel, up, fn>>

node_setup_docker == GraphStep("setup_docker")
node_load_test_cases == GraphStep("load_test_cases")
node_parse_command == GraphStep("parse_command")
node_execute_command == GraphStep("execute_command")
node_save_result == GraphStep("save_result")

(***************************************************************************)
(* api/routes.py: execute_task_tests and create_test_case_endpoint         *)
(***************************************************************************)
\* up to the start of the per-case loop: container name default, test_data
\* check, load
execute_task_tests_start ==
    /\ pc = "idle"
    /\ db.tasks[T1].exists
    /\ LET t == db.tasks[T1]
       IN IF ~t.container_name /\ ~t.algorithm_image
          THEN /\ pc' = "rejected"
               /\ UNCHANGED <<db, st, log>>
               /\ drv' = [drv EXCEPT !.mode = "driver"]
          ELSE LET d1 == IF ~t.container_name
                         THEN update_task_container_name(db, T1, TRUE)
                         ELSE db
               IN IF \E c \in CasesOf(d1, T1) : ~d1.cases[c].test_data
                  THEN /\ pc' = "rejected"
                       /\ db' = d1
                       /\ UNCHANGED <<st, log>>
                       /\ drv' = [drv EXCEPT !.mode = "driver"]
                  ELSE LET r == load_test_cases(InitialState(0, TRUE), d1)
                       IN /\ db' = r.db
                          /\ st' = r.st
                          /\ log' = log \o r.ev
                          /\ pc' = IF r.st.status = "error" THEN "done"
                                   ELSE "driver_loop"
                          /\ drv' = [mode |-> "driver", i |-> 0,
                                     test_cases |-> r.st.test_cases]
    /\ UNCHANGED <<env, resp, an, sel, up, fn>>

\* one iteration of `for i, case in enumerate(test_cases)`
execute_task_tests_case ==
    /\ pc = "driver_loop"
    /\ drv.i < Len(drv.test_cases)
    /\ LET s0 == [st EXCEPT !.current_case_index = drv.i,
                            !.case_id = drv.test_cases[drv.i + 1]]
           p == parse_command(s0, db, env)
       IN IF p.raised \/ p.st.status # "parsed"
          THEN /\ st' = s0
               /\ db' = p.db
               /\ log' = log \o p.ev
          ELSE LET x == execute_command(p.st, p.db, env)
               IN IF x.st.status # "executed"
                  THEN /\ st' = p.st
                       /\ db' = x.db
                       /\ log' = log \o p.ev \o x.ev
                  ELSE LET r == save_result(x.st, x.db, env)
                       IN /\ st' = r.st
                          /\ db' = r.db
                          /\ log' = log \o p.ev \o x.ev \o r.ev
    /\ drv' = [drv EXCEPT !.i = drv.i + 1]
    /\ UNCHANGED <<env, pc, resp, an, sel, up, fn>>

\* after the loop the task is marked completed
execute_task_tests_finish ==
    /\ pc = "driver_loop"
    /\ drv.i = Len(drv.test_cases)
    /\ db' = update_test_task_status(db, T1, "completed")
    /\ pc' = "done"
    /\ UNCHANGED <<env, st, log, drv, resp, an, sel, up, fn>>

\* POST /testcases: a new task with status completed and one new case
create_test_case_endpoint ==
    /\ \E t \in TaskIds, c \in CaseIds, steps \in BOOLEAN :
          /\ ~db.tasks[t].exists
          /\ \A t2 \in TaskIds : t2 < t => db.tasks[t2].exists
          /\ ~db.cases[c].exists
          /\ \A c2 \in CaseIds : c2 < c => db.cases[c2].exists
          /\ db' = [db EXCEPT !.tasks[t] = TaskRow("completed", TRUE, FALSE),
                              !.cases[c] = CaseRow(t, steps, FALSE)]
    /\ UNCHANGED <<env, pc, st, log, drv, resp, an, sel, up, fn>>

(***************************************************************************)
(* api/routes.py: prepare_task_execution and release_task_docker           *)
(***************************************************************************)
\* what one release meets at the remote executor: whether the session can be
\* opened, whether the tool result carries stdout/stderr attributes (the
\* checks are guarded by hasattr), whether the script removed the sandbox,
\* whether it wrote to stderr, and whether the verify call returns
ReleaseOutcomes ==
    [connect_ok : BOOLEAN, attrs : BOOLEAN, deleted : BOOLEAN,
     stderr : BOOLEAN, verify_ok : BOOLEAN]

\* the executor can be reached and the scripts run without writing to stderr
QuietExecutor(o) == o.connect_ok /\ o.verify_ok /\ ~(o.attrs /\ o.stderr)

release_algorithm_container(d, t, o) ==
    IF ~d.tasks[t].exists \/ ~d.tasks[t].container_name
    THEN [success |-> FALSE, db |-> d]
    ELSE IF ~o.connect_ok
    THEN [success |-> FALSE, db |-> d]
    ELSE LET d1 == [d EXCEPT !.sandbox[t] = d.sandbox[t] /\ ~o.deleted]
         IN IF o.attrs /\ o.stderr
            THEN [success |-> FALSE, db |-> d1]
            ELSE IF ~o.verify_ok
            THEN [success |-> FALSE, db |-> d1]
            ELSE IF o.attrs /\ d1.sandbox[t]
            THEN [success |-> FALSE, db |-> d1]
            ELSE [success |-> TRUE,
                  db |-> [d1 EXCEPT !.tasks[t].container_name = FALSE]]

\* POST /tasks/{task_id}/prepare
prepare_task_execution ==
    /\ db.tasks[T1].exists
    /\ LET t == db.tasks[T1]
       IN IF ~t.algorithm_image
          THEN /\ resp' = RouteResponse("prepare", FALSE, FALSE, TRUE)
               /\ UNCHANGED db
          ELSE IF t.container_name
          THEN /\ resp' = RouteResponse("prepare", TRUE, FALSE, TRUE)
               /\ UNCHANGED db
          ELSE LET r == setup_algorithm_container(db, env, T1)
               IN /\ resp' = RouteResponse("prepare", r.success, TRUE,
                                            TRUE)
                  /\ db' = IF r.success
                           THEN update_task_container_name(r.db, T1, TRUE)
                           ELSE r.db
    /\ UNCHANGED <<env, pc, st, log, drv, an, sel, up, fn>>

release_task_docker_unguarded ==
    /\ db.tasks[T1].exists
    /\ \E o \in ReleaseOutcomes :
          LET r == release_algorithm_container(db, T1, o)
          IN /\ resp' = RouteResponse("release", r.success, TRUE,
                                          QuietExecutor(o))
             /\ db' = r.db
    /\ UNCHANGED <<env, pc, st, log, drv, an, sel, up, fn>>

\* POST /tasks/{task_id}/release-docker
release_task_docker ==
    /\ db.tasks[T1].exists
    /\ IF ~db.tasks[T1].container_name
       THEN /\ resp' = RouteResponse("release", TRUE, FALSE, TRUE)
            /\ UNCHANGED db
       ELSE \E o \in ReleaseOutcomes :
               LET r == release_algorithm_container(db, T1, o)
               IN /\ resp' = RouteResponse("release", r.success, TRUE,
                                          QuietExecutor(o))
                  /\ db' = r.db
    /\ UNCHANGED <<env, pc, st, log, drv, an, sel, up, fn>>

ExecNext ==
    \/ run_execution
    \/ node_setup_docker
    \/ node_load_test_cases
    \/ node_parse_command
    \/ node_execute_command
    \/ node_save_result
    \/ execute_task_tests_start
    \/ execute_task_tests_case
    \/ execute_task_tests_finish
    \/ create_test_case_endpoint

Spec == ExecInit /\ [][ExecNext]_vars

\* a cancellation delivered while a node awaits the LLM or the executor: the
\* await raises CancelledError, which no `except Exception` of the nodes, of
\* run_execution or of execute_task_tests catches; the run ends there, with
\* the state as it was and without any further call
cancel_execution ==
    /\ \/ drv.mode = "graph"
          /\ pc \in {"setup_docker", "parse_command", "execute_command"}
       \/ drv.mode = "driver" /\ pc = "driver_loop"
          /\ drv.i < Len(drv.test_cases)
    /\ pc' = "cancelled"
    /\ UNCHANGED <<db, env, st, log, drv, resp, an, sel, up, fn>>

\* the sandbox lifecycle: the prepare and release routes may be called at any
\* time before, during and after an execution of the task; the task's cases
\* are complete (steps and test_data set)
SandboxInit ==
    /\ ExecInit
    /\ \A c \in CasesOf(db, T1) : db.cases[c].steps /\ db.cases[c].test_data

SandboxNext ==
    \/ run_execution
    \/ node_setup_docker
    \/ node_load_test_cases
    \/ node_parse_command
    \/ node_execute_command
    \/ node_save_result
    \/ execute_task_tests_start
    \/ execute_task_tests_case
    \/ execute_task_tests_finish
    \/ prepare_task_execution
    \/ release_task_docker
    \/ cancel_execution

SpecSandbox == SandboxInit /\ [][SandboxNext]_vars

(***************************************************************************)
(* Properties of the Execution workflow and its driver                     *)
(***************************************************************************)
Before(k, e) == \E j \in 1..(k - 1) : log[j] = e

\* C1: parse, execute and save run per case in index order: execute(i) only
\* after parse(i), save(i) only after execute(i), and parse(i+1) begins only
\* after the store update of save(i) has been committed.
C1_CaseOrdering ==
    \A k \in 1..Len(log) :
        /\ log[k].op = "execute_command" => Before(k, Ev("parse_command", log[k].idx))
        /\ log[k].op = "save_result" => Before(k, Ev("execute_command", log[k].idx))
        /\ (log[k].op = "parse_command" /\ log[k].idx > 0)
              => Before(k, Ev("commit", log[k].idx - 1))

\* C2 (I5): a task whose status is completed has only cases in a terminal
\* state (completed or failed).
C2_CompletedImpliesTerminal ==
    \A t \in TaskIds :
        (db.tasks[t].exists /\ db.tasks[t].status = "completed")
            => \A c \in CasesOf(db, t) : Terminal(db.cases[c].status)

\* C3: the task is marked completed only after the save of the last loaded
\* case (index N-1) has been committed.
C3_CompletedAfterLastSave ==
    db.tasks[T1].status = "completed"
        => /\ st.test_cases # <<>>
           /\ \E k \in 1..Len(log) : log[k] = Ev("commit", Len(st.test_cases) - 1)

ProvisioningFailed ==
    /\ drv.mode = "graph"
    /\ st.errors # <<>>
    /\ st.errors[1] = "setup"

\* C4: when provisioning fails the run aborts: load, parse, execute and save
\* are not invoked, the run ends with status error and no stored case changes.
C4_ProvisionFailureAborts ==
    ProvisioningFailed
        => /\ \A k \in 1..Len(log) : log[k].op = "setup_docker"
           /\ pc \in {"done", "raised"} => st.status = "error"
           /\ \A c \in CasesOf(db, T1) :
                 /\ db.cases[c].status = "pending"
                 /\ db.cases[c].result_analysis = "none"
                 /\ ~db.cases[c].test_result

\* C6: no node of the workflow propagates an exception to its caller.
C6_NodesNeverRaise == pc # "raised"

ProvisioningStepSucceeded ==
    \/ /\ pc = "setup_docker" /\ pc' = "load_test_cases"
       /\ st'.status = "container_ready"
    \/ /\ resp'.tick # resp.tick
       /\ resp'.op = "prepare" /\ resp'.success /\ resp'.called

\* C11: when the provisioning step succeeds, as the first node of the
\* Execution workflow or through the prepare route, the task row's container
\* name is algotest_<task_id> afterwards.
C11_ProvisionSetsName ==
    [][ProvisioningStepSucceeded => db'.tasks[T1].container_name]_vars

ReleaseReturned ==
    /\ resp'.tick # resp.tick
    /\ resp'.op = "release" /\ resp'.called

\* C12: release clears the task's container name only after the sandbox has
\* been deleted and its absence verified: a successful release leaves the
\* name null and the sandbox absent, and a release after which the sandbox
\* still exists reports failure and leaves the name unchanged.
C12_ReleaseClearsAfterVerify ==
    [][ReleaseReturned
         => /\ resp'.success
                => (~db'.tasks[T1].container_name /\ ~db'.sandbox[T1])
            /\ db'.sandbox[T1]
                => (~resp'.success /\ db'.tasks[T1].container_name)]_vars

ReleaseAnswered == resp'.tick # resp.tick /\ resp'.op = "release"

NameUnset == ~db.tasks[T1].container_name

ParseInvoked ==
    /\ Len(log') > Len(log)
    /\ log'[Len(log) + 1].op = "parse_command"

C15_CancelledRunReleases ==
    pc = "cancelled" => (st.status = "cancelled" /\ ~db.sandbox[T1])

(***************************************************************************)
(* Analysis workflow (agents/analysis_agent.py)                            *)
(***************************************************************************)
AnWithError(s) == [s EXCEPT !.errors = Append(s.errors, "error"), !.status = "error"]

\* e.pdf_ok: some extractor yields non-empty text
read_pdf_content(s, e) ==
    IF e.pdf_ok
    THEN [s EXCEPT !.pdf_content = TRUE, !.status = "pdf_read"]
    ELSE AnWithError(s)

\* e.llm: -1 when the gateway returns "API调用失败...", else the number of
\* cases the response parses to
generate_test_cases(s, e) ==
    IF ~s.pdf_content THEN AnWithError(s)
    ELSE IF e.llm = -1 THEN AnWithError(s)
    ELSE [s EXCEPT !.test_cases = e.llm, !.status = "generated"]

\* the ValueError of line 360, caught at line 400: its text is the message
EmptyListError(s) ==
    [s EXCEPT !.errors = Append(s.errors, "test_cases_empty"), !.status = "error"]

\* create_test_task and every create_test_case open their own session and
\* commit on their own; e.fail_at is the write that fails (1 the task row,
\* k+1 the k-th case row, 0 none)
RowsWritten(n, fail_at) ==
    IF fail_at = 0 \/ fail_at > n + 1
    THEN [task |-> TRUE, cases |-> 1..n, failed |-> FALSE]
    ELSE [task |-> fail_at > 1, cases |-> 1..(fail_at - 2), failed |-> TRUE]

\* save_to_database creating the task row before it looks at the list
save_to_database_task_first(s, store, e) ==
    IF s.test_cases <= 0
    THEN [st |-> EmptyListError(s), store |-> [store EXCEPT !.task = TRUE]]
    ELSE LET w == RowsWritten(s.test_cases, e.fail_at)
             store1 == [task |-> store.task \/ w.task,
                        cases |-> store.cases \cup w.cases]
         IN IF w.failed
            THEN [st |-> AnWithError(s), store |-> store1]
            ELSE [st |-> [s EXCEPT !.status = "saved"], store |-> store1]

save_to_database(s, store, e) ==
    IF s.test_cases <= 0
    THEN [st |-> EmptyListError(s), store |-> store]
    ELSE LET w == RowsWritten(s.test_cases, e.fail_at)
             store1 == [task |-> store.task \/ w.task,
                        cases |-> store.cases \cup w.cases]
         IN IF w.failed
            THEN [st |-> AnWithError(s), store |-> store1]
            ELSE [st |-> [s EXCEPT !.status = "saved"], store |-> store1]

\* edges of create_analysis_graph
create_analysis_graph(node) ==
    CASE node = "read_pdf_content" -> "generate_test_cases"
      [] node = "generate_test_cases" -> "save_to_database"
      [] node = "save_to_database" -> "done"

AnalysisInit ==
    /\ ExecIdle /\ SelectionIdle /\ UploadIdle /\ FnIdle
    /\ \E e \in [pdf_ok : BOOLEAN, llm : -1..MaxGen, fail_at : 0..(MaxGen + 1)] :
          an = [pc |-> "idle", env |-> e, trace |-> <<>>,
                st |-> [status |-> "created", pdf_content |-> FALSE,
                        test_cases |-> -1, errors |-> <<>>],
                store |-> [task |-> FALSE, cases |-> {}]]

run_analysis ==
    /\ an.pc = "idle"
    /\ an' = [an EXCEPT !.pc = "read_pdf_content"]
    /\ UNCHANGED <<execVars, sel, up, fn>>

node_read_pdf_content ==
    /\ an.pc = "read_pdf_content"
    /\ an' = [an EXCEPT !.st = read_pdf_content(an.st, an.env),
                        !.trace = Append(an.trace, an.pc),
                        !.pc = create_analysis_graph(an.pc)]
    /\ UNCHANGED <<execVars, sel, up, fn>>

node_generate_test_cases ==
    /\ an.pc = "generate_test_cases"
    /\ an' = [an EXCEPT !.st = generate_test_cases(an.st, an.env),
                        !.trace = Append(an.trace, an.pc),
                        !.pc = create_analysis_graph(an.pc)]
    /\ UNCHANGED <<execVars, sel, up, fn>>

node_save_to_database ==
    /\ an.pc = "save_to_database"
    /\ LET r == save_to_database(an.st, an.store, an.env)
       IN an' = [an EXCEPT !.st = r.st, !.store = r.store,
                           !.trace = Append(an.trace, an.pc),
                           !.pc = create_analysis_graph(an.pc)]
    /\ UNCHANGED <<execVars, sel, up, fn>>

AnalysisNext ==
    \/ run_analysis
    \/ node_read_pdf_content
    \/ node_generate_test_cases
    \/ node_save_to_database

SpecAnalysis == AnalysisInit /\ [][AnalysisNext]_vars

\* C5: once a node returns status error (no edge is declared for it) the run
\* halts: no further node is invoked and that state is the run's result.
C5_ErrorHaltsRun ==
    (an.pc # "off" /\ an.st.status = "error") => an.pc = "done"

\* C8: the persist step is atomic: after it returns with status saved the
\* task row and all N case rows are stored; after it returns with status
\* error, none of them is.
C8_PersistAtomic ==
    (an.pc = "done")
        => /\ an.st.status = "saved"
                => (an.store.task /\ an.store.cases = 1..an.st.test_cases)
           /\ an.st.status = "error"
                => (~an.store.task /\ an.store.cases = {})

(***************************************************************************)
(* Selection workflow (agents/select_agent.py)                             *)
(***************************************************************************)

\* app.ainvoke(initial_state) is called without a config, so the graph
\* engine's default recursion limit applies to the run
RecursionLimit == 25

SelInitialState ==
    [status |-> "initialized", dataset_url |-> FALSE, label_data |-> FALSE,
     label_content_ready |-> FALSE, label_files |-> FALSE, test_cases |-> 0,
     image_mapping |-> FALSE, updated_count |-> 0, attempt_count |-> 0,
     errors |-> 0]

SelWithError(s) == [s EXCEPT !.errors = s.errors + 1, !.status = "error"]

get_task_info(s, e) ==
    IF ~e.task_exists THEN SelWithError(s)
    ELSE [s EXCEPT !.dataset_url = TRUE, !.status = "task_info_ready"]

\* what the listing command yields: an exception (gateway or transport),
\* file content, a list of label file names, or text with no file name in it
ListOutcomes == {"exception", "content", "files", "nothing"}

list_label_files(s, o) ==
    CASE o = "exception" -> SelWithError(s)
      [] o = "content" ->
            [s EXCEPT !.label_data = TRUE, !.label_files = FALSE,
                      !.label_content_ready = TRUE,
                      !.attempt_count = s.attempt_count + 1,
                      !.status = "label_content_ready"]
      [] o = "files" ->
            [s EXCEPT !.label_data = TRUE, !.label_files = TRUE,
                      !.label_content_ready = FALSE,
                      !.attempt_count = s.attempt_count + 1,
                      !.status = "label_files_ready"]
      [] o = "nothing" ->
            [s EXCEPT !.label_data = FALSE, !.label_files = FALSE,
                      !.label_content_ready = FALSE,
                      !.attempt_count = s.attempt_count + 1,
                      !.status = "label_files_ready"]

ReadOutcomes == {"exception", "content", "no_content"}

read_label_file_contents(s, o) ==
    IF ~s.label_files THEN SelWithError(s)
    ELSE CASE o = "exception" -> SelWithError(s)
           [] o = "content" ->
                 [s EXCEPT !.label_data = TRUE, !.label_content_ready = TRUE,
                           !.attempt_count = s.attempt_count + 1,
                           !.status = "label_content_ready"]
           [] o = "no_content" ->
                 [s EXCEPT !.label_content_ready = FALSE,
                           !.attempt_count = s.attempt_count + 1,
                           !.status = "label_content_failed"]

get_test_cases(s, e) ==
    IF ~e.task_exists \/ e.ncases = 0 THEN SelWithError(s)
    ELSE [s EXCEPT !.test_cases = e.ncases, !.status = "test_cases_ready"]

MappingOutcomes == {"exception", "empty", "mapping"}

select_test_images_node(s, e) ==
    IF s.test_cases = 0 \/ ~s.label_data \/ e.llm = "exception"
    THEN SelWithError(s)
    ELSE [s EXCEPT !.image_mapping = (e.llm = "mapping"),
                   !.status = "images_selected"]

update_database(s) ==
    IF ~s.image_mapping THEN SelWithError(s)
    ELSE [s EXCEPT !.updated_count = s.test_cases, !.status = "completed"]

\* edges that leave the read node for get_test_cases once the attempts are
\* used up, whether or not label content was obtained
build_selection_workflow_unchecked(node, s) ==
    CASE node = "get_task_info" -> "list_label_files"
      [] node = "list_label_files" ->
            IF ~s.label_content_ready /\ s.attempt_count < 3
            THEN "read_label_file_contents"
            ELSE IF s.label_content_ready THEN "get_test_cases" ELSE "done"
      [] node = "read_label_file_contents" ->
            IF s.label_content_ready THEN "get_test_cases"
            ELSE IF s.attempt_count >= 3 THEN "get_test_cases"
            ELSE "read_label_file_contents"
      [] node = "get_test_cases" -> "select_test_images"
      [] node = "select_test_images" -> "update_database"
      [] node = "update_database" -> "done"

\* edges of build_selection_workflow
build_selection_workflow(node, s) ==
    CASE node = "get_task_info" -> "list_label_files"
      [] node = "list_label_files" ->
            IF ~s.label_content_ready /\ s.attempt_count < 3
            THEN "read_label_file_contents"
            ELSE IF s.label_content_ready THEN "get_test_cases" ELSE "done"
      [] node = "read_label_file_contents" ->
            IF s.label_content_ready THEN "get_test_cases"
            ELSE IF s.attempt_count >= 3 THEN "done"
            ELSE "read_label_file_contents"
      [] node = "get_test_cases" -> "select_test_images"
      [] node = "select_test_images" -> "update_database"
      [] node = "update_database" -> "done"

SelNodes == {"get_task_info", "list_label_files", "read_label_file_contents",
             "get_test_cases", "select_test_images", "update_database"}

SelectionInit ==
    /\ ExecIdle /\ AnalysisIdle /\ UploadIdle /\ FnIdle
    /\ \E e \in [task_exists : BOOLEAN, ncases : 0..MaxCases,
                 llm : MappingOutcomes] :
          sel = [pc |-> "idle", env |-> e, st |-> SelInitialState,
                 steps |-> 0, reads |-> 0, result |-> "none"]

run_selection_workflow ==
    /\ sel.pc = "idle"
    /\ sel' = [sel EXCEPT !.pc = "get_task_info"]
    /\ UNCHANGED <<execVars, an, up, fn>>

SelStep(node, s1) ==
    /\ sel.pc = node
    /\ sel.steps < RecursionLimit
    /\ LET nxt == build_selection_workflow(node, s1)
       IN sel' = [sel EXCEPT
                    !.st = s1,
                    !.steps = sel.steps + 1,
                    !.reads = IF node = "read_label_file_contents"
                              THEN sel.reads + 1 ELSE sel.reads,
                    !.pc = nxt,
                    !.result = IF nxt = "done" THEN "returned" ELSE "none"]
    /\ UNCHANGED <<execVars, an, up, fn>>

node_get_task_info == SelStep("get_task_info", get_task_info(sel.st, sel.env))

node_list_label_files ==
    \E o \in ListOutcomes :
        SelStep("list_label_files", list_label_files(sel.st, o))

node_read_label_file_contents ==
    \E o \in ReadOutcomes :
        SelStep("read_label_file_contents",
                read_label_file_contents(sel.st, o))

node_get_test_cases ==
    SelStep("get_test_cases", get_test_cases(sel.st, sel.env))

node_select_test_images ==
    SelStep("select_test_images", select_test_images_node(sel.st, sel.env))

node_update_database == SelStep("update_database", update_database(sel.st))

\* the engine raises once the step count reaches the limit with a node still
\* pending; run_selection_workflow catches it and reports failure
recursion_limit_reached ==
    /\ sel.pc \in SelNodes
    /\ sel.steps >= RecursionLimit
    /\ sel' = [sel EXCEPT !.pc = "done", !.result = "exception"]
    /\ UNCHANGED <<execVars, an, up, fn>>

SelectionNext ==
    \/ run_selection_workflow
    \/ node_get_task_info
    \/ node_list_label_files
    \/ node_read_label_file_contents
    \/ node_get_test_cases
    \/ node_select_test_images
    \/ node_update_database
    \/ recursion_limit_reached

SpecSelection == SelectionInit /\ [][SelectionNext]_vars

\* C7: in any Selection run the read-label-contents node executes at most 3
\* times, and a run that ends after reading without label content ends with
\* status label_content_failed, whether or not listing or reading raised.
C7_ReadAtMostThrice ==
    sel.pc # "off"
        => /\ sel.reads <= 3
           /\ (sel.pc = "done" /\ sel.reads > 0 /\ ~sel.st.label_content_ready)
                 => sel.st.status = "label_content_failed"

(***************************************************************************)
(* Document upload (api/routes.py, POST /documents)                        *)
(***************************************************************************)

MaxHashes == 2
MaxUploads == 4
MaxWorkers == 2

Hashes == 1..MaxHashes
Workers == 1..MaxWorkers

\* a stored task row as the upload handler writes it; document_hash is a
\* plain optional column
UploadedTask(document_id, file_hash) ==
    [document_id |-> document_id, document_hash |-> file_hash,
     status |-> "created"]

\* whether the store rejects a second row with the same document_hash: the
\* column is described as optional and used for the lookup, with no
\* constraint of its own
document_hash_unique == FALSE

\* db.query(DBTestTask).filter(document_hash == file_hash).first():
\* the position of the first stored row with that hash, 0 for None
existing_task(tasks, file_hash) ==
    IF \E i \in DOMAIN tasks : tasks[i].document_hash = file_hash
    THEN CHOOSE i \in DOMAIN tasks :
            /\ tasks[i].document_hash = file_hash
            /\ \A j \in DOMAIN tasks :
                  tasks[j].document_hash = file_hash => i <= j
    ELSE 0

Response(code, req, document_id, message) ==
    [code |-> code, hash |-> req.hash, document_id |-> document_id,
     message |-> message]

\* lines 140-186 given the row the lookup returned (found, 0 for None):
\* answer with the existing row's document_id, or insert and commit
upload_document_finish(tasks, req, document_id, found) ==
    IF found # 0
    THEN [tasks |-> tasks,
          response |-> Response(200, req, tasks[found].document_id, "exists")]
    ELSE IF ~req.commit_ok
            \/ (document_hash_unique /\ existing_task(tasks, req.hash) # 0)
    THEN [tasks |-> tasks, response |-> Response(500, req, 0, "error")]
    ELSE [tasks |-> Append(tasks, UploadedTask(document_id, req.hash)),
          response |-> Response(200, req, document_id, "uploaded")]

upload_document_no_dedup(tasks, req, document_id) ==
    IF ~req.pdf
    THEN [tasks |-> tasks, response |-> Response(400, req, 0, "not_pdf")]
    ELSE upload_document_finish(tasks, req, document_id, 0)

\* the whole handler for one request; document_id is the fresh identifier
\* generate_unique_id("DOC") returns
upload_document(tasks, req, document_id) ==
    IF ~req.pdf
    THEN [tasks |-> tasks, response |-> Response(400, req, 0, "not_pdf")]
    ELSE upload_document_finish(tasks, req, document_id,
                                existing_task(tasks, req.hash))

Requests == [pdf : BOOLEAN, hash : Hashes, commit_ok : BOOLEAN]

IdleWorker == [pc |-> "idle", req |-> [pdf |-> TRUE, hash |-> 1,
                                        commit_ok |-> TRUE],
               document_id |-> 0, found |-> 0]

UploadInit ==
    /\ ExecIdle /\ AnalysisIdle /\ SelectionIdle /\ FnIdle
    /\ up = [pc |-> "on", tasks |-> <<>>, responses |-> <<>>, requests |-> 0,
             procs |-> [w \in Workers |-> IdleWorker]]

\* one request served from start to end with no other request in between
post_documents ==
    /\ up.pc = "on"
    /\ up.requests < MaxUploads
    /\ \E req \in Requests :
          LET r == upload_document(up.tasks, req, up.requests + 1)
          IN up' = [up EXCEPT !.tasks = r.tasks,
                              !.responses = Append(up.responses, r.response),
                              !.requests = up.requests + 1]
    /\ UNCHANGED <<execVars, an, sel, fn>>

UploadNext == post_documents

SpecUpload == UploadInit /\ [][UploadNext]_vars

TasksWithHash(h) == {i \in DOMAIN up.tasks : up.tasks[i].document_hash = h}

Stored(i) == up.responses[i].code = 200

worker_read ==
    /\ up.pc = "on"
    /\ up.requests < MaxUploads
    /\ \E w \in Workers, req \in Requests :
          /\ up.procs[w].pc = "idle"
          /\ IF ~req.pdf
             THEN up' = [up EXCEPT
                           !.requests = up.requests + 1,
                           !.responses =
                               Append(up.responses,
                                      Response(400, req, 0, "not_pdf"))]
             ELSE up' = [up EXCEPT
                           !.requests = up.requests + 1,
                           !.procs[w] = [pc |-> "lookup", req |-> req,
                                         document_id |-> up.requests + 1,
                                         found |-> 0]]
    /\ UNCHANGED <<execVars, an, sel, fn>>

worker_lookup ==
    /\ up.pc = "on"
    /\ \E w \in Workers :
          /\ up.procs[w].pc = "lookup"
          /\ up' = [up EXCEPT
                      !.procs[w].found =
                          existing_task(up.tasks, up.procs[w].req.hash),
                      !.procs[w].pc = "finish"]
    /\ UNCHANGED <<execVars, an, sel, fn>>

worker_finish ==
    /\ up.pc = "on"
    /\ \E w \in Workers :
          /\ up.procs[w].pc = "finish"
          /\ LET p == up.procs[w]
                 r == upload_document_finish(up.tasks, p.req, p.document_id,
                                             p.found)
             IN up' = [up EXCEPT
                         !.tasks = r.tasks,
                         !.responses = Append(up.responses, r.response),
                         !.procs[w] = IdleWorker]
    /\ UNCHANGED <<execVars, an, sel, fn>>

UploadWorkersNext ==
    \/ worker_read
    \/ worker_lookup
    \/ worker_finish

SpecUploadWorkers == UploadInit /\ [][UploadWorkersNext]_vars

Tokens == {"w", "s", "f", "q", "v", "{", "}", "[", "]", ","}

RECURSIVE ValueEnd(_, _), MembersEnd(_, _), ItemsEnd(_, _)
\* Index just after the JSON value that starts at t[i]; 0 when there is none.
ValueEnd(t, i) ==
    IF i > Len(t) THEN 0
    ELSE IF t[i] = "v" THEN i + 1
    ELSE IF t[i] = "{"
         THEN IF i + 1 <= Len(t) /\ t[i + 1] = "}" THEN i + 2
              ELSE MembersEnd(t, i + 1)
    ELSE IF t[i] = "["
         THEN IF i + 1 <= Len(t) /\ t[i + 1] = "]" THEN i + 2
              ELSE ItemsEnd(t, i + 1)
    ELSE 0

MembersEnd(t, i) ==
    IF i > Len(t) \/ t[i] # "q" THEN 0
    ELSE LET j == ValueEnd(t, i + 1)
         IN IF j = 0 \/ j > Len(t) THEN 0
            ELSE IF t[j] = "}" THEN j + 1
            ELSE IF t[j] = "," THEN MembersEnd(t, j + 1)
            ELSE 0

ItemsEnd(t, i) ==
    LET j == ValueEnd(t, i)
    IN IF j = 0 \/ j > Len(t) THEN 0
       ELSE IF t[j] = "]" THEN j + 1
       ELSE IF t[j] = "," THEN ItemsEnd(t, j + 1)
       ELSE 0

IsSpace(x) == x = "s"
NotSpace(x) == ~IsSpace(x)

\* json.loads: whitespace around and between items is insignificant; the whole
\* text must be exactly one value, anything else is a JSONDecodeError.
json_loads(text) ==
    LET t == SelectSeq(text, NotSpace)
    IN IF t # <<>> /\ ValueEnd(t, 1) = Len(t) + 1
       THEN [ok |-> TRUE, value |-> t]
       ELSE [ok |-> FALSE, value |-> <<>>]

\* The three results of the call: a plan built from a parsed object, the
\* default command, or an exception leaving the function.
Plan(obj) == [outcome |-> "plan", plan |-> obj, description |-> "parsed"]
DefaultPlan(image, description) ==
    [outcome |-> "default",
     plan |-> <<"execute_command", image>>,
     description |-> description]
RaisedOut(exc) == [outcome |-> "raised", plan |-> <<>>, description |-> exc]

\* Lines 259-271 and 310-322: a non-empty list is replaced by its first
\* element, then .get is called on whatever json_data is. Only a dict has
\* .get; on a list (the empty one) or a scalar it is an AttributeError.
strategy_of(value) ==
    LET json_data == IF value[1] = "[" /\ value[2] # "]"
                     THEN SubSeq(value, 2, ValueEnd(value, 2) - 1)
                     ELSE value
    IN IF json_data[1] = "{" THEN Plan(json_data)
       ELSE RaisedOut("AttributeError")

\* \s* at position i: skip one run of whitespace if there is one.
SkipSpace(t, i) == IF i <= Len(t) /\ IsSpace(t[i]) THEN i + 1 ELSE i
At(t, i, x) == i <= Len(t) /\ t[i] = x

\* re.search takes the leftmost start and, the body being lazy, the nearest
\* end that lets the rest of the pattern match.
Leftmost(S) ==
    CHOOSE m \in S : \A n \in S :
        m[1] < n[1] \/ (m[1] = n[1] /\ m[2] <= n[2])

\* fence (?:json)?\s*(\{[\s\S]*?\})\s* fence, and the same with [ ]:
\* group(1).
search_fenced(t, open, close) ==
    LET S == {m \in (1 .. Len(t)) \X (1 .. Len(t)) :
                /\ t[m[1]] = "f"
                /\ At(t, SkipSpace(t, m[1] + 1), open)
                /\ m[2] > SkipSpace(t, m[1] + 1)
                /\ t[m[2]] = close
                /\ At(t, SkipSpace(t, m[2] + 1), "f")}
    IN IF S = {} THEN <<>>
       ELSE SubSeq(t, SkipSpace(t, Leftmost(S)[1] + 1), Leftmost(S)[2])

\* \{\s*"[^"]+"\s*:[\s\S]*?\} : group(0), which ends at the first "}" after
\* the first key.
search_object(t) ==
    LET S == {m \in (1 .. Len(t)) \X (1 .. Len(t)) :
                /\ t[m[1]] = "{"
                /\ At(t, SkipSpace(t, m[1] + 1), "q")
                /\ m[2] > SkipSpace(t, m[1] + 1)
                /\ t[m[2]] = "}"}
    IN IF S = {} THEN <<>>
       ELSE SubSeq(t, Leftmost(S)[1], Leftmost(S)[2])

\* \[\s*\{[\s\S]*?\}\s*\] : group(0).
search_array(t) ==
    LET S == {m \in (1 .. Len(t)) \X (1 .. Len(t)) :
                /\ t[m[1]] = "["
                /\ At(t, SkipSpace(t, m[1] + 1), "{")
                /\ m[2] > SkipSpace(t, m[1] + 1)
                /\ t[m[2]] = "}"
                /\ At(t, SkipSpace(t, m[2] + 1), "]")}
    IN IF S = {} THEN <<>>
       ELSE SubSeq(t, Leftmost(S)[1], SkipSpace(t, Leftmost(S)[2] + 1))

\* Lines 275-301: the four patterns in the order the code tries them.
extract_json(content) ==
    IF search_fenced(content, "{", "}") # <<>>
    THEN search_fenced(content, "{", "}")
    ELSE IF search_object(content) # <<>> THEN search_object(content)
    ELSE IF search_fenced(content, "[", "]") # <<>>
         THEN search_fenced(content, "[", "]")
    ELSE search_array(content)

\* ZhipuAIClient.parse_command from the API call on. api_ok is whether
\* client.chat.completions.create returned; content is the reply's text;
\* container_name is whether the caller passed one.
gateway_parse_command(api_ok, content, container_name) ==
    IF ~api_ok
    THEN DefaultPlan(IF container_name THEN "test.jpg" ELSE "000000.jpg",
                     "api_call_failed")
    ELSE IF json_loads(content).ok
    THEN strategy_of(json_loads(content).value)
    ELSE LET json_content == extract_json(content)
         IN IF json_content # <<>>
            THEN IF json_loads(json_content).ok
                 THEN strategy_of(json_loads(json_content).value)
                 ELSE DefaultPlan("test.jpg", "json_parse_failed")
            ELSE DefaultPlan(IF container_name THEN "test.jpg"
                                               ELSE "000000.jpg",
                             "json_not_found")

\* Replies the specification feeds to the gateway: a JSON payload (or none)
\* in one of the wrappings an LLM produces.
FlatObject == <<"{", "q", "v", "}">>
NestedObject ==
    <<"{", "q", "v", ",", "q", "{", "q", "v", "}", ",", "q", "v", "}">>
ListOf(items) == <<"[">> \o items \o <<"]">>
TruncatedObject == <<"{", "q", "v", ",", "q", "{", "q", "v">>
Objects == {<<"{", "}">>, FlatObject, NestedObject}
Payloads ==
    Objects \cup
    {<<>>, <<"v">>, ListOf(<<>>), ListOf(<<"v">>), ListOf(FlatObject),
     ListOf(NestedObject), ListOf(FlatObject \o <<",">> \o NestedObject),
     TruncatedObject, <<"{", "q", "}">>}
Wrappings ==
    {"bare", "space", "prose", "fenced", "prose_fenced", "prose_fenced_space"}
Wrap(k, p) ==
    CASE k = "bare" -> p
      [] k = "space" -> <<"s">> \o p \o <<"s">>
      [] k = "prose" -> <<"w">> \o p \o <<"w">>
      [] k = "fenced" -> <<"f">> \o p \o <<"f">>
      [] k = "prose_fenced" -> <<"w", "f">> \o p \o <<"f", "w">>
      [] k = "prose_fenced_space" ->
            <<"w", "f", "s">> \o p \o <<"s", "f", "w">>

SynthesisInit ==
    /\ ExecIdle /\ AnalysisIdle /\ SelectionIdle /\ UploadIdle
    /\ \E api_ok, container_name \in BOOLEAN, k \in Wrappings, p \in Payloads :
          fn = [pc |-> "call", f |-> "parse_command", api_ok |-> api_ok,
                wrapping |-> k, payload |-> p, content |-> Wrap(k, p),
                container_name |-> container_name, result |-> RaisedOut("")]

\* One call of ZhipuAIClient.parse_command.
call_parse_command ==
    /\ fn.pc = "call" /\ fn.f = "parse_command"
    /\ fn' = [fn EXCEPT
                !.pc = "done",
                !.result = gateway_parse_command(fn.api_ok, fn.content,
                                                 fn.container_name)]
    /\ UNCHANGED <<execVars, an, sel, up>>

SynthesisNext == call_parse_command

SpecSynthesis == SynthesisInit /\ [][SynthesisNext]_vars

SynthesisDone == fn.pc = "done" /\ fn.f = "parse_command"

\* C16: for every LLM outcome (API exception, a JSON object, a JSON list
\* including the empty one, a non-object JSON value, a fenced block, prose
\* without JSON, malformed JSON) command synthesis returns one command plan
\* without raising, and it is the default command when no plan can be parsed.
C16_SynthesisNeverRaises ==
    SynthesisDone
        => /\ fn.result.outcome \in {"plan", "default"}
           /\ (~fn.api_ok \/ fn.payload \in {<<>>, TruncatedObject})
                 => fn.result.outcome = "default"

\* C17: a fenced JSON object surrounded by prose yields that object as the
\* plan; so does a bare object with leading and trailing whitespace; so does
\* an unfenced object embedded in prose, nested objects included (its balanced
\* brace span); a reply with none of these yields the fallback.
C17_ExtractionCases ==
    (SynthesisDone /\ fn.api_ok)
        => /\ (fn.wrapping \in {"prose_fenced", "prose_fenced_space"}
                 /\ fn.payload \in Objects)
                 => fn.result = Plan(fn.payload)
           /\ (fn.wrapping = "space" /\ fn.payload \in Objects)
                 => fn.result = Plan(fn.payload)
           /\ (fn.wrapping = "prose" /\ fn.payload \in Objects)
                 => fn.result = Plan(fn.payload)
           /\ fn.payload = <<>> => fn.result.outcome = "default"

\* ---------------------------------------------------------------------------
\* Executor adapter: output capture (execute_container_command, save_result)
\* ---------------------------------------------------------------------------
\* Text written by a command, as the items the adapter tells apart:
\*   "ok:"    the framing of a successful call (line 1323)
\*   "fail:"  the framing of a failed call (line 1327)
\*   "rc"     the marker for a printed return code (lines 1373, 1389)
\*   "M5"     one of the other four markers of error_keywords (line 1389)
\*   "M6"     the marker tested together with the return code (line 1373)
\*   "x"      any other output bytes
\*   "n"      a newline
\*   "sq" "dq"  a single and a double quote character
MaxText == 3
OutputTokens == {"ok:", "fail:", "rc", "M5", "M6", "x", "n", "sq", "dq"}
Texts == UNION {[1 .. m -> OutputTokens] : m \in 0 .. MaxText}

Has(t, x) == \E i \in DOMAIN t : t[i] = x
FirstIndex(t, x) == CHOOSE i \in DOMAIN t : t[i] = x /\ \A j \in 1 .. (i - 1) : t[j] # x
NotOkFraming(x) == x # "ok:"
NotNewline(x) == x # "n"

\* str.strip()
strip(t) ==
    LET keep == {i \in DOMAIN t : NotNewline(t[i])}
    IN IF keep = {} THEN <<>>
       ELSE SubSeq(t, CHOOSE i \in keep : \A j \in keep : i <= j,
                      CHOOSE i \in keep : \A j \in keep : i >= j)

\* What the executor hands back. An "attrs" result exposes stdout and stderr
\* attributes; a "content" result is the tool-call result of the session,
\* which carries a list of TextContent and isError only.
ExecutorResponses ==
    [returned : {TRUE}, shape : {"attrs"}, stdout : Texts,
     stderr : {<<>>, <<"x">>}, isError : BOOLEAN]
    \cup [returned : {TRUE}, shape : {"content"}, stdout : Texts,
          stderr : {<<>>}, isError : BOOLEAN]
    \cup {[returned |-> FALSE, shape |-> "attrs", stdout |-> <<>>,
           stderr |-> <<>>, isError |-> FALSE]}

\* repr() of the text inside str(result): newlines become the two characters
\* backslash n ("en"); the delimiter is the double quote when the text has a
\* single quote and no double quote, else the single quote, single quotes in
\* the text then being written backslash quote ("bs", "sq").
ReprDelimiter(t) == IF Has(t, "sq") /\ ~Has(t, "dq") THEN "dq" ELSE "sq"

RECURSIVE ReprBody(_, _)
ReprBody(t, delim) ==
    IF t = <<>> THEN <<>>
    ELSE (IF Head(t) = "n" THEN <<"en">>
          ELSE IF Head(t) = "sq" /\ delim = "sq" THEN <<"bs", "sq">>
          ELSE <<Head(t)>>) \o ReprBody(Tail(t), delim)

\* str(result) of a content result: "wrap" stands for the text around the
\* TextContent's text field.
str_result(text) ==
    <<"wrap", ReprDelimiter(text)>> \o ReprBody(text, ReprDelimiter(text))
        \o <<ReprDelimiter(text), "wrap">>

\* re.search(r"text='([^']*)'", stdout_raw): matches when the field is
\* delimited by single quotes; group(1) runs to the first single quote.
text_match(text) ==
    IF ReprDelimiter(text) # "sq" THEN [matched |-> FALSE, group |-> <<>>]
    ELSE LET body == ReprBody(text, "sq") \o <<"sq">>
         IN [matched |-> TRUE,
             group |-> SubSeq(body, 1, FirstIndex(body, "sq") - 1)]

\* Lines 1303-1354: raw_stdout and the first value of is_error. The import
\* of re at line 1316 makes re a local name of the whole function, bound only
\* once the TextContent branch has run; re.search at line 1348 therefore
\* raises UnboundLocalError.
Unwrapped(raw_stdout, is_error) ==
    [raised |-> FALSE, raw_stdout |-> raw_stdout, is_error |-> is_error]

unwrap_stdout(r) ==
    IF r.shape = "content"
    THEN LET m == text_match(r.stdout)
         IN IF ~m.matched THEN Unwrapped(str_result(r.stdout), FALSE)
            ELSE IF Has(m.group, "ok:")
            THEN Unwrapped(strip(SelectSeq(m.group, NotOkFraming)), FALSE)
            ELSE IF Has(m.group, "fail:") THEN Unwrapped(<<>>, TRUE)
            ELSE Unwrapped(m.group, FALSE)
    ELSE IF Has(r.stdout, "ok:")
         THEN [raised |-> TRUE, raw_stdout |-> <<>>, is_error |-> FALSE]
         ELSE Unwrapped(r.stdout, FALSE)

\* The dictionary returned from the handler of line 1432.
ExceptionResult ==
    [returned |-> FALSE, success |-> FALSE, full_output |-> <<>>,
     raw_stdout |-> <<>>, raw_stderr |-> <<>>]

\* Lines 1291-1443 of execute_container_command: the result dictionary built
\* from the executor's response (or from the exception of the call).
command_result(r) ==
    IF ~r.returned \/ unwrap_stdout(r).raised THEN ExceptionResult
    ELSE
    LET u == unwrap_stdout(r)
        stderr_raw == IF r.shape = "attrs" THEN r.stderr ELSE <<>>
        swap == r.isError /\ stderr_raw = <<>> /\ u.raw_stdout # <<>>
        raw_stdout == IF swap THEN <<>> ELSE u.raw_stdout
        raw_stderr == IF swap THEN u.raw_stdout ELSE stderr_raw
        full_output == <<"STDOUT:", "n">> \o raw_stdout \o <<"n">>
                       \o (IF raw_stderr # <<>>
                           THEN <<"STDERR:", "n">> \o raw_stderr ELSE <<>>)
        code == Has(raw_stdout, "rc") \/ Has(raw_stdout, "M6")
        raw_stderr2 == IF code /\ raw_stderr = <<>> THEN raw_stdout
                       ELSE raw_stderr
        keyword == Has(raw_stdout, "M5") \/ Has(raw_stdout, "rc")
        is_error == u.is_error \/ r.isError \/ code \/ keyword
                    \/ raw_stderr2 # <<>>
    IN [returned |-> TRUE, success |-> ~is_error, full_output |-> full_output,
        raw_stdout |-> raw_stdout, raw_stderr |-> raw_stderr2]

\* Lines 972-982 of save_result: the text handed to the store.
raw_output_text(res) ==
    IF res.full_output # <<>> THEN res.full_output
    ELSE IF res.raw_stdout # <<>>
    THEN res.raw_stdout
         \o (IF res.raw_stderr # <<>>
             THEN <<"n", "n", "STDERR:", "n">> \o res.raw_stderr ELSE <<>>)
    ELSE <<>>

\* The executor behaviour the execute_command node sees for a result.
ExecutorOutcomeOf(res) ==
    IF ~res.returned THEN "unreachable"
    ELSE IF res.success THEN "ok" ELSE "fail"

\* The state parse_command returns for the first case of the task.
ParsedState(d) ==
    [InitialState(0, TRUE) EXCEPT
        !.test_cases = SetToSeq(CasesOf(d, T1)),
        !.case_id = SetToSeq(CasesOf(d, T1))[1],
        !.command_strategies = "plan",
        !.status = "parsed"]

\* A task with a sandbox and complete cases, its first case parsed, and the
\* response the executor is about to give.
CaptureInit ==
    /\ AnalysisIdle /\ SelectionIdle /\ UploadIdle
    /\ db \in {d \in SeedStores :
                 /\ d.tasks[T1].algorithm_image /\ d.tasks[T1].container_name
                 /\ CasesOf(d, T1) # {}
                 /\ \A c \in CasesOf(d, T1) :
                       d.cases[c].steps /\ d.cases[c].test_data}
    /\ env = [provision_ok |-> TRUE, llm |-> "plan", executor |-> "ok"]
    /\ pc = "execute_command"
    /\ st = ParsedState(db)
    /\ log = <<>>
    /\ drv = [mode |-> "graph", i |-> 0, test_cases |-> <<>>]
    /\ resp = NoResponse
    /\ \E r \in ExecutorResponses :
          fn = [pc |-> "response", f |-> "execute_container_command",
                response |-> r, result |-> ExceptionResult,
                case_id |-> st.case_id, raw_output_text |-> <<>>]

\* Lines 1238-1267: the result dictionary built from external_output.
ExternalResult ==
    [returned |-> TRUE, success |-> TRUE,
     full_output |-> <<"STDOUT:", "n", "external_output", "n">>,
     raw_stdout |-> <<"external_output">>, raw_stderr |-> <<>>]

\* The execute_command node with the executor giving fn.response.
capture_execute_command ==
    /\ pc = "execute_command" /\ fn.pc = "response"
    /\ LET res == IF st.command_strategies # "plan" THEN fn.result
                  ELSE IF external_output_of(st, db) = "text"
                  THEN ExternalResult
                  ELSE command_result(fn.response)
           e == [env EXCEPT !.executor = ExecutorOutcomeOf(res)]
           r == execute_command(st, db, e)
       IN /\ env' = e
          /\ st' = r.st
          /\ db' = r.db
          /\ log' = log \o r.ev
          /\ pc' = create_execution_graph("execute_command", r.st)
          /\ fn' = [fn EXCEPT !.pc = "executed", !.result = res]
    /\ UNCHANGED <<drv, resp, an, sel, up>>

\* The save_result node on the state execute_command returned.
capture_save_result ==
    /\ pc = "save_result" /\ fn.pc = "executed"
    /\ LET r == save_result(st, db, env)
       IN /\ st' = r.st
          /\ db' = r.db
          /\ log' = log \o r.ev
          /\ pc' = IF r.raised THEN "raised" ELSE "done"
          /\ fn' = [fn EXCEPT !.pc = "saved",
                              !.raw_output_text = raw_output_text(fn.result)]
    /\ UNCHANGED <<env, drv, resp, an, sel, up>>

CaptureNext ==
    \/ capture_execute_command
    \/ capture_save_result

SpecCapture == CaptureInit /\ [][CaptureNext]_vars

ListedMarker(t) == Has(t, "M5") \/ Has(t, "rc")

\* C18: for every executor response the success flag is true exactly when
\* stderr is empty, stdout has none of the five listed markers and the
\* response does not carry the isError flag.
C18_SuccessFlag ==
    (fn.pc \in {"executed", "saved"} /\ fn.response.returned)
        => (fn.result.success
              <=> ~(\/ fn.response.stderr # <<>>
                    \/ ListedMarker(fn.response.stdout)
                    \/ fn.response.isError))

\* t has s as a contiguous part
Contains(t, s) ==
    \E i \in 1 .. (Len(t) + 1) :
        i + Len(s) - 1 <= Len(t) /\ SubSeq(t, i, i + Len(s) - 1) = s

EndsWith(t, s) ==
    Len(s) <= Len(t) /\ SubSeq(t, Len(t) - Len(s) + 1, Len(t)) = s

\* The actual_output the store holds for case c once save has run: the text
\* handed to update_test_case_status if that call wrote a result row.
StoredActualOutput(c) ==
    IF db.cases[c].test_result THEN fn.raw_output_text ELSE <<>>

\* C19: for every executed case the actual_output stored by save contains the
\* executor's full stdout unchanged, and a non-empty stderr follows it after
\* the exact separator newline newline STDERR: newline.
C19_OutputPreserved ==
    (fn.pc = "saved" /\ fn.response.returned)
        => /\ Contains(StoredActualOutput(fn.case_id), fn.response.stdout)
           /\ fn.response.stderr # <<>>
                 => EndsWith(StoredActualOutput(fn.case_id),
                             <<"n", "n", "STDERR:", "n">> \o fn.response.stderr)

\* C20: after the save node has processed a case whose execution returned,
\* the stored case has status completed when the success flag is true and
\* failed otherwise, a result row carrying is_passed and actual_output, and a
\* result_analysis saying success on success and failure on failure.
C20_SaveStoresOutcome ==
    (fn.pc = "saved" /\ fn.result.returned)
        => /\ db.cases[fn.case_id].status =
                 (IF fn.result.success THEN "completed" ELSE "failed")
           /\ db.cases[fn.case_id].test_result
           /\ db.cases[fn.case_id].result_analysis =
                 (IF fn.result.success THEN "success" ELSE "failure")

ExecutorFailed(r) == ~r.returned \/ r.isError

\* C21: when the executor fails during a run (the session cannot be opened,
\* or the response carries the error flag) the run stops: no case after the
\* current one is parsed or executed.
C21_ExecutorFailureStopsRun ==
    (fn.pc = "saved" /\ ExecutorFailed(fn.response))
        => \A k \in DOMAIN log :
              log[k].op \in {"parse_command", "execute_command"}
                  => log[k].idx = 0

\* The save step just taken failed to persist the result of the current case.
SaveFailed ==
    /\ pc = "save_result" /\ fn.pc = "executed" /\ fn'.pc = "saved"
    /\ Len(st'.errors) > 0 /\ st'.errors[Len(st'.errors)] = "save_failed"

\* C22: if persisting the result of case i fails, the stored record of case i
\* is left as it was, the error is appended to errors, and the workflow
\* continues with case i+1.
C22_SaveFailureContinues ==
    [][SaveFailed
          => /\ db'.cases[fn.case_id] = db.cases[fn.case_id]
             /\ Len(st'.errors) = Len(st.errors) + 1
             /\ st.current_case_index + 1 < Len(st.test_cases)
                   => \E k \in DOMAIN log' :
                         log'[k] = Ev("parse_command", st.current_case_index + 1)]_vars

\* ---------------------------------------------------------------------------
\* External-output override (execute_command 786-804)
\* ---------------------------------------------------------------------------
ExternalOutputs == {"none", "empty", "text"}

OverrideResponses ==
    {r \in ExecutorResponses : r.stdout \in {<<>>, <<"x">>, <<"M5">>}}

\* As CaptureInit, with cases that may carry an external_output and any plan
\* the parse node can hand over.
OverrideInit ==
    /\ AnalysisIdle /\ SelectionIdle /\ UploadIdle
    /\ \E d \in SeedStores, x \in [CaseIds -> ExternalOutputs] :
          /\ d.tasks[T1].algorithm_image /\ d.tasks[T1].container_name
          /\ CasesOf(d, T1) # {}
          /\ \A c \in CasesOf(d, T1) : d.cases[c].steps /\ d.cases[c].test_data
          /\ \A c \in CaseIds \ CasesOf(d, T1) : x[c] = "none"
          /\ db = [d EXCEPT !.cases =
                      [c \in CaseIds |->
                          [d.cases[c] EXCEPT !.external_output = x[c]]]]
    /\ env \in [provision_ok : {TRUE}, llm : LlmOutcomes, executor : {"ok"}]
    /\ pc = "execute_command"
    /\ st = [ParsedState(db) EXCEPT !.command_strategies = env.llm]
    /\ log = <<>>
    /\ drv = [mode |-> "graph", i |-> 0, test_cases |-> <<>>]
    /\ resp = NoResponse
    /\ \E r \in OverrideResponses :
          fn = [pc |-> "response", f |-> "execute_container_command",
                response |-> r, result |-> ExceptionResult,
                case_id |-> st.case_id, raw_output_text |-> <<>>]

SpecOverride == OverrideInit /\ [][CaptureNext]_vars

\* The execute step just taken was for a case carrying a non-empty payload.
OverrideStep ==
    /\ pc = "execute_command" /\ fn.pc = "response" /\ fn'.pc = "executed"
    /\ external_output_of(st, db) = "text"

SessionOpened(l) == \E k \in DOMAIN l : l[k].op = "sse_client"

OverrideEffect ==
    /\ ~SessionOpened(log')
    /\ fn'.result.raw_stdout = <<"external_output">>
    /\ DOMAIN fn'.result = DOMAIN command_result(fn.response)
    /\ st'.status = "executed"
    /\ st'.execution_result.present /\ st'.execution_result.success
    /\ pc' = "save_result"

MaxRetryCount == 4
ApiKeys == {"ok", "missing", "malformed"}
RetryDelays == {1, 5}
RetryBackoffs == {1, 2}
Timeouts == {45, 60}

\* What one requests.post attempt can come to (lines 83-123).
AttemptOutcomes ==
    {"ok", "bad_status", "bad_format", "timeout", "request_exception",
     "exception"}

RECURSIVE Pow(_, _)
Pow(b, n) == IF n = 0 THEN 1 ELSE b * Pow(b, n - 1)

\* wait_time = retry_delay * (retry_backoff ** attempt), slept unless the
\* attempt was the last one; 0 stands for no sleep
wait_time(c, attempt) ==
    IF attempt < c.retry_count - 1
    THEN c.retry_delay * Pow(c.retry_backoff, attempt)
    ELSE 0

\* the timeout grows on any failed attempt
next_timeout_any_failure(timeout, outcome, attempt, retry_count) ==
    IF attempt < retry_count - 1
    THEN (timeout * 3) \div 2
    ELSE timeout

\* line 106: timeout = int(timeout * 1.5), in the Timeout handler only and
\* not after the last attempt
next_timeout(timeout, outcome, attempt, retry_count) ==
    IF outcome = "timeout" /\ attempt < retry_count - 1
    THEN (timeout * 3) \div 2
    ELSE timeout

GatewayInit ==
    /\ ExecIdle /\ AnalysisIdle /\ SelectionIdle /\ UploadIdle
    /\ \E k \in ApiKeys, n \in 0 .. MaxRetryCount, d \in RetryDelays,
          b \in RetryBackoffs, t \in Timeouts :
          fn = [pc |-> "call", f |-> "call_zhipu_api", api_key |-> k,
                retry_count |-> n, retry_delay |-> d, retry_backoff |-> b,
                timeout |-> t, attempt |-> 0, attempts |-> <<>>,
                result |-> "none"]

\* lines 35-78: the key checks raise ValueError before any request
zhipu_prepare ==
    /\ fn.pc = "call" /\ fn.f = "call_zhipu_api"
    /\ fn' = IF fn.api_key # "ok"
             THEN [fn EXCEPT !.pc = "done", !.result = "raised"]
             ELSE [fn EXCEPT !.pc = "loop"]
    /\ UNCHANGED <<execVars, an, sel, up>>

\* one iteration that goes on to the next without stopping at a success
zhipu_attempt_no_return ==
    /\ fn.pc = "loop" /\ fn.f = "call_zhipu_api"
    /\ fn.attempt < fn.retry_count
    /\ \E o \in AttemptOutcomes :
          LET w == wait_time(fn, fn.attempt)
          IN fn' = [fn EXCEPT
                      !.attempts = Append(fn.attempts,
                          [outcome |-> o, timeout |-> fn.timeout, wait |-> w]),
                      !.attempt = fn.attempt + 1,
                      !.timeout = next_timeout(fn.timeout, o, fn.attempt,
                                               fn.retry_count)]
    /\ UNCHANGED <<execVars, an, sel, up>>

\* lines 80-123: one iteration of for attempt in range(retry_count)
zhipu_attempt ==
    /\ fn.pc = "loop" /\ fn.f = "call_zhipu_api"
    /\ fn.attempt < fn.retry_count
    /\ \E o \in AttemptOutcomes :
          IF o = "ok"
          THEN fn' = [fn EXCEPT
                        !.attempts = Append(fn.attempts,
                            [outcome |-> o, timeout |-> fn.timeout, wait |-> 0]),
                        !.pc = "done",
                        !.result = "content"]
          ELSE LET w == wait_time(fn, fn.attempt)
               IN fn' = [fn EXCEPT
                           !.attempts = Append(fn.attempts,
                               [outcome |-> o, timeout |-> fn.timeout, wait |-> w]),
                           !.attempt = fn.attempt + 1,
                           !.timeout = next_timeout(fn.timeout, o, fn.attempt,
                                                    fn.retry_count)]
    /\ UNCHANGED <<execVars, an, sel, up>>

\* lines 125-128: the loop is over, the sentinel string is returned
zhipu_exhausted ==
    /\ fn.pc = "loop" /\ fn.f = "call_zhipu_api"
    /\ fn.attempt >= fn.retry_count
    /\ fn' = [fn EXCEPT !.pc = "done", !.result = "sentinel"]
    /\ UNCHANGED <<execVars, an, sel, up>>

GatewayNext ==
    \/ zhipu_prepare
    \/ zhipu_attempt
    \/ zhipu_exhausted

SpecGateway == GatewayInit /\ [][GatewayNext]_vars

\* The call runs in one thread, every request has a timeout and every sleep
\* is finite, so a step that is possible is eventually taken.
SpecGatewayFair == SpecGateway /\ WF_vars(GatewayNext)

Failed(a) == a.outcome # "ok"

GatewayBounded ==
    /\ Len(fn.attempts) <= fn.retry_count
    /\ \A i \in DOMAIN fn.attempts :
          ~Failed(fn.attempts[i])
              => i = Len(fn.attempts) /\ fn.pc = "done" /\ fn.result = "content"
    /\ fn.result = "content"
          => fn.attempts # <<>> /\ ~Failed(fn.attempts[Len(fn.attempts)])
    /\ (fn.pc = "done" /\ fn.api_key = "ok"
          /\ \A i \in DOMAIN fn.attempts : Failed(fn.attempts[i]))
          => fn.result = "sentinel"
    /\ fn.attempts # <<>> => fn.result # "raised"

\* C24: a gateway call terminates after at most retry_count attempts; it
\* returns the content of the first successful attempt without making further
\* attempts, and when every attempt fails it returns the sentinel string
\* instead of raising.
C24_GatewayTerminates == [](GatewayBounded) /\ <>(fn.pc = "done")

C24_Witness ==
    /\ fn.pc = "done" /\ fn.result = "sentinel"
    /\ fn.retry_count = 3 /\ Len(fn.attempts) = 3

WaitsOk ==
    \A k \in DOMAIN fn.attempts :
        fn.attempts[k].wait =
            IF Failed(fn.attempts[k]) /\ k < fn.retry_count
            THEN fn.retry_delay * Pow(fn.retry_backoff, k - 1)
            ELSE 0

\* C25 (as stated): the wait before attempt k+1 is retry_delay *
\* retry_backoff^(k-1), with no wait after the final attempt, and the timeout
\* of an attempt is the previous attempt's timeout * 1.5 exactly when the
\* previous attempt timed out, and unchanged otherwise.
C25_BackoffAndTimeout ==
    fn.f = "call_zhipu_api"
        => /\ WaitsOk
           /\ \A k \in DOMAIN fn.attempts :
                 k + 1 \in DOMAIN fn.attempts
                     => IF fn.attempts[k].outcome = "timeout"
                        THEN 2 * fn.attempts[k + 1].timeout
                                 = 3 * fn.attempts[k].timeout
                        ELSE fn.attempts[k + 1].timeout = fn.attempts[k].timeout

\* C25 (amended): the same, the new timeout being timeout * 1.5 rounded down
\* to a whole number of seconds.
C25_BackoffAndTruncatedTimeout ==
    fn.f = "call_zhipu_api"
        => /\ WaitsOk
           /\ \A k \in DOMAIN fn.attempts :
                 k + 1 \in DOMAIN fn.attempts
                     => IF fn.attempts[k].outcome = "timeout"
                        THEN fn.attempts[k + 1].timeout
                                 = (3 * fn.attempts[k].timeout) \div 2
                        ELSE fn.attempts[k + 1].timeout = fn.attempts[k].timeout

C25_Witness ==
    /\ fn.f = "call_zhipu_api" /\ Len(fn.attempts) = 3
    /\ fn.attempts[1].timeout = 45 /\ fn.attempts[1].outcome = "timeout"
    /\ fn.attempts[2].timeout = 67 /\ fn.attempts[2].outcome = "request_exception"
    /\ fn.attempts[3].timeout = 67
    /\ fn.retry_delay = 5 /\ fn.retry_backoff = 2
    /\ fn.attempts[1].wait = 5 /\ fn.attempts[2].wait = 10

(***************************************************************************)
(* LLM failure at a call site (analysis_agent.py generate_test_cases)      *)
(***************************************************************************)

\* the gateway answered the synthesis prompt with its failure string
LlmFailedAtSynthesis ==
    /\ an.pc \in {"save_to_database", "done"}
    /\ an.st.pdf_content
    /\ an.env.llm = -1

\* C26: a remote LLM failure at a call site (here test-case synthesis) is
\* replaced by that site's fallback value and never sets the workflow's
\* status to error.
C26_LlmFailureFallsBack ==
    LlmFailedAtSynthesis => an.st.status # "error"

(***************************************************************************)
(* The load node (execution_agent.py load_test_cases)                      *)
(***************************************************************************)

\* the body of load_test_cases inside its try block: store_ok is FALSE when
\* get_db() or db.execute raises, which the except block turns into an
\* error state like the ValueError of an empty result
load_test_cases_node(s, d, store_ok) ==
    IF store_ok
    THEN load_test_cases(s, d)
    ELSE Returned(WithError(s, "store_failed"), d, <<Ev("load_test_cases", -1)>>)

\* stores with up to two tasks whose case rows interleave in insertion order
LoadStores ==
    { [tasks |-> [t \in TaskIds |->
                    IF t = T1 \/ (\E c \in CaseIds : owner[c] = t)
                    THEN TaskRow("created", TRUE, TRUE) ELSE NoTask],
       cases |-> [c \in CaseIds |->
                    IF owner[c] = 0 THEN NoCase ELSE CaseRow(owner[c], TRUE, TRUE)],
       sandbox |-> [t \in TaskIds |-> t = T1]] :
      owner \in [CaseIds -> {0} \cup TaskIds] }

\* the state the graph hands to the load node: what setup_docker returned
LoadInit ==
    /\ AnalysisIdle /\ SelectionIdle /\ UploadIdle
    /\ db \in LoadStores
    /\ env = [provision_ok |-> TRUE, llm |-> "plan", executor |-> "ok"]
    /\ pc = "load_test_cases"
    /\ \E cid \in {0} \cup CaseIds, ready \in BOOLEAN :
          st = IF ready
               THEN [InitialState(cid, TRUE) EXCEPT !.status = "container_ready"]
               ELSE WithError(InitialState(cid, FALSE), "setup")
    /\ log = <<>>
    /\ drv = [mode |-> "node", i |-> 0, test_cases |-> <<>>]
    /\ resp = NoResponse
    /\ fn \in [pc : {"load"}, store_ok : BOOLEAN]

load_node ==
    /\ fn.pc = "load"
    /\ pc = "load_test_cases"
    /\ LET r == load_test_cases_node(st, db, fn.store_ok)
       IN /\ st' = r.st
          /\ db' = r.db
          /\ log' = log \o r.ev
          /\ pc' = create_execution_graph("load_test_cases", r.st)
    /\ fn' = [fn EXCEPT !.pc = "loaded"]
    /\ UNCHANGED <<env, drv, resp, an, sel, up>>

LoadNext == load_node

SpecLoad == LoadInit /\ [][LoadNext]_vars

\* the rows of task T1 the request asks for
Requested(d, case_id) ==
    {c \in CaseIds : /\ d.cases[c].exists
                     /\ d.cases[c].task_id = T1
                     /\ (case_id # 0 => c = case_id)}

Ascending(q) == \A i, j \in DOMAIN q : i < j => q[i] < q[j]

\* C27: the load node returns status loaded with current_case_index = 0 and
\* test_cases equal to all cases of the task in stored order, or exactly the
\* requested case when case_id is supplied; when no matching case exists or
\* the store fails it returns status error with a message appended to errors.
C27_LoadNode ==
    [][ (fn.pc = "load" /\ fn'.pc = "loaded") =>
          IF fn.store_ok /\ Requested(db, st.case_id) # {}
          THEN /\ st'.status = "loaded"
               /\ st'.current_case_index = 0
               /\ Ascending(st'.test_cases)
               /\ {st'.test_cases[i] : i \in DOMAIN st'.test_cases}
                     = Requested(db, st.case_id)
               /\ st'.errors = st.errors
          ELSE /\ st'.status = "error"
               /\ Len(st'.errors) = Len(st.errors) + 1
               /\ SubSeq(st'.errors, 1, Len(st.errors)) = st.errors
               /\ st'.test_cases = st.test_cases ]_vars

\* one case of a task that has several is requested and loaded alone, next
\* to rows of another task
C27_Witness ==
    /\ fn.pc = "loaded"
    /\ st.case_id # 0
    /\ st.status = "loaded"
    /\ st.test_cases = <<st.case_id>>
    /\ Cardinality(CasesOf(db, T1)) >= 2
    /\ \E c \in CaseIds : db.cases[c].exists /\ db.cases[c].task_id # T1

(***************************************************************************)
(* The parse node on a ready case (execution_agent.py parse_command)       *)
(***************************************************************************)

\* the graph is about to invoke the parse node on a loaded state whose
\* current case has steps and test_data and whose task has a stored sandbox
\* name, and the node is invoked
ParseOfReadyCase ==
    /\ pc = "parse_command"
    /\ drv.mode = "graph"
    /\ st.status = "loaded"
    /\ st.current_case_index < Len(st.test_cases)
    /\ db.cases[st.test_cases[st.current_case_index + 1]].steps
    /\ db.cases[st.test_cases[st.current_case_index + 1]].test_data
    /\ db.tasks[T1].container_name
    /\ log' = Append(log, Ev("parse_command", st.current_case_index))

\* C28: for a loaded state whose current case has steps and test_data and
\* whose task has a stored sandbox name, the parse node returns status parsed
\* with case_id set to the current case's id and a command plan synthesized
\* with the stored sandbox name.
C28_ParseReturnsParsed ==
    [][ ParseOfReadyCase =>
          /\ pc' = "execute_command"
          /\ st'.status = "parsed"
          /\ st'.case_id = st.test_cases[st.current_case_index + 1]
          /\ st'.command_strategies = env.llm ]_vars

(***************************************************************************)
(* Persisting an empty list (analysis_agent.py save_to_database)           *)
(***************************************************************************)

\* the persist node is invoked with an empty (or absent) test-case list
PersistOfEmptyList ==
    /\ an.pc = "save_to_database"
    /\ an.st.test_cases <= 0
    /\ an'.pc = "done"

\* C29: persisting an empty test-case list returns status error with the
\* empty-list message in errors and performs no store write: neither a task
\* nor any case is created.
C29_EmptyListNotPersisted ==
    [][ PersistOfEmptyList =>
          /\ an'.st.status = "error"
          /\ an'.st.errors = Append(an.st.errors, "test_cases_empty")
          /\ an'.store = an.store
          /\ ~an'.store.task
          /\ an'.store.cases = {} ]_vars

\* the synthesis step produced a list of no cases and the persist step ran
C29_Witness ==
    /\ an.pc = "done"
    /\ an.env.pdf_ok
    /\ an.env.llm = 0
    /\ an.st.test_cases = 0
    /\ an.st.status = "error"
    /\ an.st.errors = <<"test_cases_empty">>
    /\ ~an.store.task

(***************************************************************************)
(* Stored status of a case (database.py update_test_case_status)           *)
(***************************************************************************)

\* the save node committed its update of the case it was given
SaveCommitted ==
    /\ fn.pc = "saved"
    /\ \E k \in DOMAIN log : log[k] = Ev("commit", 0)

\* C30: a case's stored status changes only along pending -> running ->
\* (completed | failed): parse moves it to running and the result of execute
\* moves it to completed or failed, so once the save of an executed case is
\* committed its stored status is terminal.
C30_StatusLifecycle ==
    SaveCommitted => Terminal(db.cases[fn.case_id].status)

(***************************************************************************)
(* Report workflow (agents/report_agent.py)                                *)
(***************************************************************************)

ReportCaseIds == 1..MaxCases

\* the columns of a case the Report nodes read and write
NoReportCase ==
    [exists |-> FALSE, status |-> "none", is_passed |-> FALSE,
     result_analysis |-> "none"]

\* rows as Execution leaves them: not run, run with success, run with failure
ReportCaseRows ==
    { NoReportCase,
      [exists |-> TRUE, status |-> "pending", is_passed |-> FALSE,
       result_analysis |-> "none"],
      [exists |-> TRUE, status |-> "completed", is_passed |-> TRUE,
       result_analysis |-> "success"],
      [exists |-> TRUE, status |-> "failed", is_passed |-> FALSE,
       result_analysis |-> "failure"] }

\* what call_zhipu_api returns to analyze_test_results: text holding no JSON
\* object (the failure string included), a JSON list, or a JSON object that
\* for each case id has no key, an empty object, or an object with is_passed
AnalysisEntries == {"absent", "empty", "pass", "fail"}

AnalysisReplies ==
    { [kind |-> "no_json", entry |-> [c \in ReportCaseIds |-> "absent"]],
      [kind |-> "list", entry |-> [c \in ReportCaseIds |-> "absent"]] }
    \cup { [kind |-> "object", entry |-> e] : e \in [ReportCaseIds -> AnalysisEntries] }

\* what call_zhipu_api returns to generate_excel_report: no JSON object, an
\* object with a complete row for every case, one with no row for any case,
\* or one whose rows lack a key
ReportReplies == {"no_json", "rows", "no_rows", "rows_without_key"}

ReportWithError(s, msg) ==
    [s EXCEPT !.errors = Append(s.errors, msg), !.status = "error"]

\* case_analysis is falsy for a missing key and for an empty object
HasAnalysis(reply, c) == reply.entry[c] \in {"pass", "fail"}

\* the entries appended to analysis_results, in the order of the query
RECURSIVE AnalysisResults(_, _, _)
AnalysisResults(cases, reply, c) ==
    IF c > MaxCases THEN <<>>
    ELSE IF ~cases[c].exists THEN AnalysisResults(cases, reply, c + 1)
    ELSE <<IF HasAnalysis(reply, c)
           THEN [case_id |-> c, marker |-> "result",
                 is_passed |-> (reply.entry[c] = "pass")]
           ELSE [case_id |-> c, marker |-> "error", is_passed |-> FALSE]>>
         \o AnalysisResults(cases, reply, c + 1)

\* whether the mapped class TestCase declares the attributes the nodes read
\* from the queried rows before they call the gateway: case.actual_output
\* (line 75) and case.is_passed (line 360).  The class declares id, task_id,
\* case_id, document_id, input_data, expected_output and created_at only, so
\* either read raises AttributeError
TestCase_actual_output == FALSE
TestCase_is_passed == FALSE

analyze_test_results(s, cases, reply) ==
    IF \A c \in ReportCaseIds : ~cases[c].exists
    THEN [st |-> ReportWithError(s, "no_cases"), cases |-> cases]
    ELSE IF ~TestCase_actual_output
    THEN [st |-> ReportWithError(s, "attribute_error"), cases |-> cases]
    ELSE IF reply.kind = "no_json"
    THEN [st |-> ReportWithError(s, "unparseable"), cases |-> cases]
    ELSE IF reply.kind = "list"
    THEN [st |-> ReportWithError(s, "attribute_error"), cases |-> cases]
    ELSE [st |-> [s EXCEPT !.analysis_results = AnalysisResults(cases, reply, 1),
                           !.test_cases = {c \in ReportCaseIds : cases[c].exists},
                           !.status = "analyzed"],
          cases |-> [c \in ReportCaseIds |->
                       IF cases[c].exists /\ HasAnalysis(reply, c)
                       THEN [cases[c] EXCEPT
                                !.result_analysis = "analysis",
                                !.is_passed = (reply.entry[c] = "pass"),
                                !.status = "completed"]
                       ELSE cases[c]]]

generate_excel_report(s, cases, reply) ==
    IF \A c \in ReportCaseIds : ~cases[c].exists
    THEN ReportWithError(s, "no_cases")
    ELSE IF ~TestCase_is_passed
    THEN ReportWithError(s, "attribute_error")
    ELSE IF reply = "no_json"
    THEN ReportWithError(s, "unparseable")
    ELSE IF reply = "rows_without_key"
    THEN ReportWithError(s, "key_error")
    ELSE [s EXCEPT !.report_path = TRUE, !.status = "report_generated"]

\* edges of create_report_graph
create_report_graph(node) ==
    CASE node = "analyze_test_results" -> "generate_excel_report"
      [] node = "generate_excel_report" -> "done"

\* initial_state of run_report_generation
ReportInitialState ==
    [status |-> "created", test_cases |-> {}, analysis_results |-> <<>>,
     report_path |-> FALSE, errors |-> <<>>]

ReportInit ==
    /\ ExecIdle /\ AnalysisIdle /\ SelectionIdle /\ UploadIdle
    /\ \E cases \in [ReportCaseIds -> ReportCaseRows],
          r1 \in AnalysisReplies, r2 \in ReportReplies :
          fn = [pc |-> "analyze_test_results", f |-> "run_report_generation",
                cases |-> cases, analysis_reply |-> r1, report_reply |-> r2,
                st |-> ReportInitialState, before |-> cases, errored |-> FALSE]

node_analyze_test_results ==
    /\ fn.pc = "analyze_test_results"
    /\ LET r == analyze_test_results(fn.st, fn.cases, fn.analysis_reply)
       IN fn' = [fn EXCEPT !.st = r.st, !.cases = r.cases,
                           !.errored = (r.st.status = "error"),
                           !.pc = create_report_graph(fn.pc)]
    /\ UNCHANGED <<execVars, an, sel, up>>

node_generate_excel_report ==
    /\ fn.pc = "generate_excel_report"
    /\ LET s1 == generate_excel_report(fn.st, fn.cases, fn.report_reply)
       IN fn' = [fn EXCEPT !.st = s1,
                           !.errored = (fn.errored \/ s1.status = "error"),
                           !.pc = create_report_graph(fn.pc)]
    /\ UNCHANGED <<execVars, an, sel, up>>

ReportNext ==
    \/ node_analyze_test_results
    \/ node_generate_excel_report

SpecReport == ReportInit /\ [][ReportNext]_vars

\* case c exists and the reply, a JSON object, has no key for it
AbsentFromReply(c) ==
    /\ fn.before[c].exists
    /\ fn.analysis_reply.kind = "object"
    /\ fn.analysis_reply.entry[c] = "absent"

\* C31: in the Report analyze step a case that is absent from the LLM's
\* response keeps its stored is_passed, status and result_analysis unchanged
\* (it is not marked failed) and is recorded in analysis_results with an
\* error marker.
C31_AbsentCaseKept ==
    (fn.pc \in {"generate_excel_report", "done"} /\ fn.f = "run_report_generation")
        => \A c \in ReportCaseIds :
              AbsentFromReply(c)
                 => /\ fn.cases[c] = fn.before[c]
                    /\ \E i \in DOMAIN fn.st.analysis_results :
                          /\ fn.st.analysis_results[i].case_id = c
                          /\ fn.st.analysis_results[i].marker = "error"

(***************************************************************************)
(* Image selection (select_agent.py select_test_images)                    *)
(***************************************************************************)

\* what the chat completion yields: the call raises, the content holds no
\* JSON object, or it holds an object that for each case id has no key
\* ("none"), a filename ("file") or the default the prompt offers ("default")
ImageChoices == {"none", "file", "default"}

ImageReplies ==
    { [kind |-> k, choice |-> [c \in CaseIds |-> "none"]] :
         k \in {"api_exception", "no_json"} }
    \cup { [kind |-> "object", choice |-> ch] : ch \in [CaseIds -> ImageChoices] }

\* default_mapping of lines 358-361, 386-389 and 436-439
default_mapping(test_cases) ==
    [c \in CaseIds |-> IF c \in test_cases THEN "default" ELSE "none"]

\* the mapping returned for the loaded cases: formatted_mapping holds the keys
\* of the parsed object and nothing else
select_test_images(test_cases, reply) ==
    IF reply.kind \in {"api_exception", "no_json"}
    THEN default_mapping(test_cases)
    ELSE reply.choice

\* lines 1000-1066 of the node, with the mapping taken from the client
select_test_images_result(s, reply) ==
    IF s.test_cases = {} \/ ~s.label_data
    THEN [s EXCEPT !.errors = Append(s.errors, "select_failed"), !.status = "error"]
    ELSE [s EXCEPT !.image_mapping = select_test_images(s.test_cases, reply),
                   !.status = "images_selected"]

\* the state get_test_cases hands over, or the error state that reaches the
\* node when an earlier node failed
SelectImagesInit ==
    /\ ExecIdle /\ AnalysisIdle /\ SelectionIdle /\ UploadIdle
    /\ \E tc \in SUBSET CaseIds, ld \in BOOLEAN, reply \in ImageReplies :
          fn = [pc |-> "select_test_images", f |-> "select_test_images_node",
                reply |-> reply,
                st |-> [status |-> IF tc = {} THEN "error" ELSE "test_cases_ready",
                        test_cases |-> tc, label_data |-> ld,
                        image_mapping |-> [c \in CaseIds |-> "none"],
                        errors |-> IF tc = {} THEN <<"no_cases">> ELSE <<>>]]

call_select_test_images_node ==
    /\ fn.pc = "select_test_images"
    /\ fn' = [fn EXCEPT !.st = select_test_images_result(fn.st, fn.reply),
                        !.pc = "update_database"]
    /\ UNCHANGED <<execVars, an, sel, up>>

SelectImagesNext == call_select_test_images_node

SpecSelectImages == SelectImagesInit /\ [][SelectImagesNext]_vars

\* C32: after the select-images node completes, image_mapping contains an
\* entry for every loaded case: each case the LLM did not map is assigned the
\* fixed fallback filename.
C32_EveryCaseMapped ==
    (fn.pc = "update_database" /\ fn.st.status = "images_selected")
        => \A c \in fn.st.test_cases :
              /\ fn.st.image_mapping[c] # "none"
              /\ fn.reply.choice[c] = "none" => fn.st.image_mapping[c] = "default"

(***************************************************************************)
(* Error states of the execution nodes                                     *)
(***************************************************************************)

\* a node of the compiled graph is invoked and returns a state
NodeReturned ==
    /\ drv.mode = "graph"
    /\ pc \in ExecNodes
    /\ log' # log
    /\ pc' # "raised"

\* C33: whenever a workflow node returns status = "error", the errors
\* sequence of the returned state is the input state's errors sequence with
\* at least one message appended.
C33_ErrorAppendsMessage ==
    [][ (NodeReturned /\ st'.status = "error")
          => /\ Len(st'.errors) > Len(st.errors)
             /\ SubSeq(st'.errors, 1, Len(st.errors)) = st.errors ]_vars

(***************************************************************************)
(* Two runs of the compiled execution graph from one input state           *)
(***************************************************************************)

\* both runs start at the entry point on the same state and their own copy of
\* the same store; env fixes what every external call answers, so that the
\* nodes are deterministic
TwoRunsInit ==
    /\ AnalysisIdle /\ SelectionIdle /\ UploadIdle
    /\ db \in SeedStores
    /\ db.tasks[T1].algorithm_image
    /\ env \in [provision_ok : BOOLEAN, llm : LlmOutcomes, executor : ExecutorOutcomes]
    /\ pc = "setup_docker"
    /\ st = InitialState(0, FALSE)
    /\ log = <<>>
    /\ drv = [mode |-> "graph", i |-> 0, test_cases |-> <<>>]
    /\ resp = NoResponse
    /\ fn = [pc |-> "setup_docker", f |-> "run_execution", st |-> st, db |-> db,
             log |-> <<>>]

\* one step of the second run: invoke its node, follow the edge
second_run_step ==
    /\ fn.pc \in ExecNodes
    /\ LET r == ExecNode(fn.pc, fn.st, fn.db, env)
       IN fn' = [fn EXCEPT !.st = r.st, !.db = r.db, !.log = fn.log \o r.ev,
                           !.pc = IF r.raised THEN "raised"
                                  ELSE LET nx == create_execution_graph(fn.pc, r.st)
                                       IN IF nx = "END" THEN "done" ELSE nx]
    /\ UNCHANGED <<execVars, an, sel, up>>

TwoRunsNext ==
    \/ node_setup_docker
    \/ node_load_test_cases
    \/ node_parse_command
    \/ node_execute_command
    \/ node_save_result
    \/ second_run_step

SpecTwoRuns == TwoRunsInit /\ [][TwoRunsNext]_vars

RunEnded(p) == p \in {"done", "raised"}

PlanTools == {"execute_command", "execute_script", "list_directory", "read_file"}
ParameterKeys == {"command", "script", "path"}
CommandStrategies == [tool : PlanTools, parameters : SUBSET ParameterKeys]

\* lines 768-769: only the command parameter of the first strategy is read
strategy_kind(plan) ==
    IF "command" \in plan.parameters THEN "plan" ELSE "no_command"

NoCall == [tool |-> "none", parameters |-> {}]

\* line 1285: session.call_tool("execute_command", {"command": command})
session_call_tool(plan) == [tool |-> "execute_command", parameters |-> {"command"}]

\* a parsed state for the first case of a task with a sandbox and complete
\* cases, a plan as the gateway may return it, and the executor's behaviour
DispatchInit ==
    /\ AnalysisIdle /\ SelectionIdle /\ UploadIdle
    /\ db \in {d \in SeedStores :
                 /\ d.tasks[T1].algorithm_image /\ d.tasks[T1].container_name
                 /\ CasesOf(d, T1) # {}
                 /\ \A c \in CasesOf(d, T1) :
                       d.cases[c].steps /\ d.cases[c].test_data}
    /\ env \in [provision_ok : {TRUE}, llm : {"plan"}, executor : ExecutorOutcomes]
    /\ pc = "execute_command"
    /\ \E plan \in CommandStrategies :
          /\ st = [ParsedState(db) EXCEPT !.command_strategies = strategy_kind(plan)]
          /\ fn = [pc |-> "parsed", f |-> "execute_command", plan |-> plan,
                   call |-> NoCall]
    /\ log = <<>>
    /\ drv = [mode |-> "graph", i |-> 0, test_cases |-> <<>>]
    /\ resp = NoResponse

\* the execute node on the plan; the tool call is made when the node opens a
\* session and the executor can be reached
dispatch_execute_command ==
    /\ fn.pc = "parsed"
    /\ pc = "execute_command"
    /\ LET r == execute_command(st, db, env)
           opened == \E k \in DOMAIN r.ev : r.ev[k].op = "sse_client"
       IN /\ st' = r.st
          /\ db' = r.db
          /\ log' = log \o r.ev
          /\ pc' = create_execution_graph("execute_command", r.st)
          /\ fn' = [fn EXCEPT !.pc = "dispatched",
                              !.call = IF opened /\ env.executor # "unreachable"
                                       THEN session_call_tool(fn.plan)
                                       ELSE NoCall]
    /\ UNCHANGED <<env, drv, resp, an, sel, up>>

DispatchNext == dispatch_execute_command

SpecDispatch == DispatchInit /\ [][DispatchNext]_vars

\* C35: the execute node dispatches the parsed plan under the plan's own
\* tool: a plan whose tool is execute_script, list_directory or read_file is
\* submitted to the executor with that tool and its parameters, and is
\* neither rejected nor run as execute_command.
C35_DispatchUnderOwnTool ==
    (/\ fn.pc = "dispatched"
     /\ fn.plan.tool # "execute_command"
     /\ env.executor # "unreachable")
        => /\ st.status = "executed"
           /\ fn.call.tool = fn.plan.tool
           /\ fn.call.parameters = fn.plan.parameters

(***************************************************************************)
(* Selection: the nodes behind the label content                           *)
(***************************************************************************)

\* the engine invokes one of the three nodes that follow the label reading
AfterLabelsNodeInvoked ==
    /\ sel.pc \in {"get_test_cases", "select_test_images", "update_database"}
    /\ sel'.steps = sel.steps + 1

\* C36: in a Selection run the get-cases, select-images and update-store
\* nodes execute only if label_content_ready is true; a run that never
\* obtains label contents ends without writing any case's test_data.
C36_OnlyWithLabelContent ==
    [][ /\ AfterLabelsNodeInvoked => sel.st.label_content_ready
        /\ ~sel'.st.label_content_ready => sel'.st.updated_count = 0 ]_vars

\* a run that obtained label content by reading, went through the three
\* nodes and wrote test_data
C36_Witness ==
    /\ sel.pc = "done"
    /\ sel.reads > 0
    /\ sel.st.label_content_ready
    /\ sel.st.status = "completed"
    /\ sel.st.updated_count > 0

(***************************************************************************)
(* How often a case is processed in one execution                          *)
(***************************************************************************)

\* number of invocations of node op on the case at index idx
Invocations(op, idx) ==
    Cardinality({k \in DOMAIN log : log[k] = Ev(op, idx)})

\* the cases the execution loaded
LoadedCases == IF drv.mode = "driver" THEN drv.test_cases ELSE st.test_cases

ExecutionEnded == pc = "done" /\ drv.mode \in {"graph", "driver"}

\* C37: within one execution of a task, whether driven by the compiled graph
\* or by the per-case driver loop, each case is parsed, executed and saved
\* exactly once: the save node's recursion and the outer loop never both
\* process the same case.
C37_EachCaseOnce ==
    ExecutionEnded =>
        \A i \in 1..Len(LoadedCases) :
            /\ Invocations("parse_command", i - 1) = 1
            /\ Invocations("execute_command", i - 1) = 1
            /\ Invocations("save_result", i - 1) = 1

(***************************************************************************)
(* The stored sandbox name and the sandbox                                 *)
(***************************************************************************)

\* C38: whenever a task's stored sandbox name is non-null, a sandbox of that
\* name was successfully provisioned for the task and has not been released
\* since; so the prepare operation skips provisioning only for tasks whose
\* sandbox was actually created.
C38_NameImpliesSandbox ==
    \A t \in TaskIds :
        (db.tasks[t].exists /\ db.tasks[t].container_name) => db.sandbox[t]

(***************************************************************************)
(* A rejected execute request                                              *)
(***************************************************************************)

\* execute_task_tests answers 400 before it loads any case
ExecuteRejected == pc = "idle" /\ pc' = "rejected"

\* C40: when the execute operation for a task is rejected before the workflow
\* starts (missing algorithm image, or some case lacking test_data), no
\* stored state of the task or its cases is changed: the task's sandbox name
\* and status are the same as before the call.
C40_RejectionChangesNothing ==
    [][ ExecuteRejected => db' = db ]_vars

(***************************************************************************)
(* An error status and the nodes that follow                               *)
(***************************************************************************)

\* C39: if any node of a workflow run returned status error, the run's
\* terminal status is error: no later node of the same run replaces an error
\* status with a non-error status.
C39_ErrorStatusKept ==
    [][ (drv.mode = "graph" /\ st.status = "error") => st'.status = "error" ]_vars

============================================================================
